---- MODULE Spec2Model ----
(***************************************************************************)
(* Interaction-log replay for the OnlyOffice SQL plugin.                   *)
(*                                                                         *)
(* The module models src/src/interaction_log_executor.py (the full         *)
(* executor) and src/src/interaction_log_executor_simple.py (the simple    *)
(* executor): the step model, the log reader, the locator resolver and     *)
(* the replay loop with its two error policies.                            *)
(*                                                                         *)
(* Representation of Python values                                         *)
(*   None            [t |-> "none"]                                        *)
(*   a str           [t |-> "str", s |-> <<...>>]                          *)
(*   any other JSON  [t |-> "num", n |-> k]   (k = 0 is falsy)             *)
(* event/action/text/value strings are sequences of one-character strings, *)
(* so that strip() and lower() are computed, not assumed.  A testId is the *)
(* sequence of its maximal words and of its delimiter characters "-" and   *)
(* "'": startswith/endswith with an affix that ends/starts at a delimiter, *)
(* and replace() of a delimiter, are then exact on that sequence.          *)
(***************************************************************************)
EXTENDS Integers, Sequences, FiniteSets, TLC

VARIABLES
    pc,             \* position of the modelled call
    file,           \* the log file: NoFile, or its sequence of lines
    lineno,         \* read_interaction_log: lines consumed so far
    steps,          \* the steps read / handed to replay_steps
    stop_on_error,  \* replay_steps(stop_on_error=...)
    prepare,        \* replay_file(prepare_plugin_home=...)
    pos,            \* replay_steps: steps consumed by the for loop
    failures,       \* replay_steps: the list of ReplayFailure
    executed,       \* history: each execute_step call in order: the step, its
                    \* error, the collaborator operations it made, and the
                    \* tracked cards before and after
    calls,          \* history: collaborator operations invoked, in order
    active_card,    \* InteractionLogExecutor._active_card
    page_card,      \* sql_manager_page.card
    alive,          \* the cards whose element reference is not stale
    outcome,        \* how the modelled call ended
    variant,        \* which executor runs: "full" or "simple"
    arg,            \* pure-function harness: the input
    raw_index,      \* pure-function harness: the index given to from_raw
    trace,          \* context harness: the last operations on the tracked card
    ret,            \* pure-function harness: the result; main: the exit code
    use_last_session, \* replay_file: the flag of that name
    skip_rules      \* SimpleInteractionLogExecutor.skip_rules

vars == <<pc, file, lineno, steps, stop_on_error, prepare, pos, failures,
          executed, calls, active_card, page_card, alive, outcome, variant,
          arg, raw_index, trace, ret, use_last_session, skip_rules>>

(***************************************************************************)
(* Bounds of the model.                                                    *)
(***************************************************************************)
MaxSteps == 3
MaxLines == 3
\* steps handed to split_sessions_by_seq, and their sequence numbers
MaxSplit == 4
MaxSeq == 3
\* skip rules an executor is given
MaxRules == 3

(***************************************************************************)
(* Python values.                                                          *)
(***************************************************************************)
None == [t |-> "none"]
Str(s) == [t |-> "str", s |-> s]
Num(n) == [t |-> "num", n |-> n]

IsStr(v) == v.t = "str"

\* Python truthiness: None, "" and 0 are falsy.
Truthy(v) ==
    CASE v.t = "none" -> FALSE
      [] v.t = "str" -> v.s # <<>>
      [] v.t = "num" -> v.n # 0
      [] OTHER -> TRUE

\* `a or b`
PyOr(a, b) == IF Truthy(a) THEN a ELSE b

\* dict.get(key): None when the key is missing
Get(raw, key) == IF key \in DOMAIN raw THEN raw[key] ELSE None

(***************************************************************************)
(* str.strip() and str.lower() on sequences of characters.                 *)
(***************************************************************************)
Whitespace == {" ", "\t", "\n", "\r"}

UpperChars == <<"A","B","C","D","E","F","G","H","I","J","K","L","M",
                "N","O","P","Q","R","S","T","U","V","W","X","Y","Z">>
LowerChars == <<"a","b","c","d","e","f","g","h","i","j","k","l","m",
                "n","o","p","q","r","s","t","u","v","w","x","y","z">>

LowerChar(c) ==
    IF \E i \in 1..Len(UpperChars) : UpperChars[i] = c
    THEN LowerChars[CHOOSE i \in 1..Len(UpperChars) : UpperChars[i] = c]
    ELSE c

Lower(s) == [i \in 1..Len(s) |-> LowerChar(s[i])]

RECURSIVE LStrip(_)
LStrip(s) ==
    IF s # <<>> /\ Head(s) \in Whitespace THEN LStrip(Tail(s)) ELSE s

RECURSIVE RStrip(_)
RStrip(s) ==
    IF s # <<>> /\ s[Len(s)] \in Whitespace
    THEN RStrip(SubSeq(s, 1, Len(s) - 1))
    ELSE s

Strip(s) == RStrip(LStrip(s))

IsPrefix(p, s) == Len(p) <= Len(s) /\ SubSeq(s, 1, Len(p)) = p
IsSuffix(p, s) == Len(p) <= Len(s) /\ SubSeq(s, Len(s) - Len(p) + 1, Len(s)) = p

(***************************************************************************)
(* Results of a call: a value, or a raised exception.                      *)
(***************************************************************************)
Ok(v) == [ok |-> TRUE, val |-> v]
Raised(e) == [ok |-> FALSE, err |-> e]

(***************************************************************************)
(* InteractionStep.from_raw                                                *)
(***************************************************************************)
\* (raw.get(key) or ""): the operand of .strip().lower()
KindOperand(raw, key) == PyOr(Get(raw, key), Str(<<>>))

\* .strip().lower() of an event/action string
NormalizeKind_NoLower(s) == Strip(s)
NormalizeKind_NoStrip(s) == Lower(s)
NormalizeKind(s) == Lower(Strip(s))

MakeStep(raw, index, event, action) ==
    [index |-> index,
     seq |-> Get(raw, "seq"),
     page |-> Get(raw, "page"),
     url |-> Get(raw, "url"),
     path |-> Get(raw, "path"),
     event |-> event,
     action |-> action,
     key |-> Get(raw, "key"),
     test_id |-> Get(raw, "testId"),
     selector |-> Get(raw, "selector"),
     tag |-> Get(raw, "tag"),
     element_id |-> Get(raw, "id"),
     name |-> Get(raw, "name"),
     role |-> Get(raw, "role"),
     text |-> Get(raw, "text"),
     value |-> Get(raw, "value"),
     query_key |-> Get(raw, "queryKey"),
     connection_name |-> Get(raw, "connectionName"),
     raw |-> raw]

\* A truthy non-string event/action has no .strip(): AttributeError.
from_raw(raw, index) ==
    LET ev == KindOperand(raw, "event")
        ac == KindOperand(raw, "action")
    IN  IF ~IsStr(ev) \/ ~IsStr(ac)
        THEN Raised([type |-> "AttributeError"])
        ELSE Ok(MakeStep(raw, index, NormalizeKind(ev.s), NormalizeKind(ac.s)))

(***************************************************************************)
(* _locator_from_step (both executors)                                     *)
(***************************************************************************)
\* test_id.replace("'", "\\'")
RECURSIVE EscapeQuotes(_)
EscapeQuotes(s) ==
    IF s = <<>> THEN <<>>
    ELSE IF Head(s) = "'" THEN <<"\\", "'">> \o EscapeQuotes(Tail(s))
    ELSE <<Head(s)>> \o EscapeQuotes(Tail(s))

\* f"[data-testid='{safe}']"
TestIdSelector(test_id) == <<"[data-testid='">> \o EscapeQuotes(test_id) \o <<"']">>

CssLocator(sel) == [t |-> "locator", by |-> "css selector", selector |-> sel]
IdLocator(id) == [t |-> "locator", by |-> "id", selector |-> id]

\* A truthy non-string testId has no .replace(): AttributeError.
TestIdLocator(test_id) ==
    IF IsStr(test_id)
    THEN Ok(CssLocator(Str(TestIdSelector(test_id.s))))
    ELSE Raised([type |-> "AttributeError"])

_locator_from_step_IdFirst(step) ==
    IF Truthy(step.element_id) THEN Ok(IdLocator(step.element_id))
    ELSE IF Truthy(step.selector) THEN Ok(CssLocator(step.selector))
    ELSE IF Truthy(step.test_id) THEN TestIdLocator(step.test_id)
    ELSE Ok(None)

_locator_from_step(step) ==
    IF Truthy(step.selector) THEN Ok(CssLocator(step.selector))
    ELSE IF Truthy(step.test_id) THEN TestIdLocator(step.test_id)
    ELSE IF Truthy(step.element_id) THEN Ok(IdLocator(step.element_id))
    ELSE Ok(None)

\* SimpleInteractionLogExecutor: the element_id branch is commented out.
Simple_locator_from_step(step) ==
    IF Truthy(step.selector) THEN Ok(CssLocator(step.selector))
    ELSE IF Truthy(step.test_id) THEN TestIdLocator(step.test_id)
    ELSE Ok(None)

(***************************************************************************)
(* String constants of the source.                                         *)
(***************************************************************************)
E_click == <<"c","l","i","c","k">>
E_input == <<"i","n","p","u","t">>
E_change == <<"c","h","a","n","g","e">>
E_codemirror_change ==
    <<"c","o","d","e","m","i","r","r","o","r","-","c","h","a","n","g","e">>
E_keydown == <<"k","e","y","d","o","w","n">>
E_keyup == <<"k","e","y","u","p">>
E_keypress == <<"k","e","y","p","r","e","s","s">>
A_activate == <<"a","c","t","i","v","a","t","e">>
A_preview == <<"p","r","e","v","i","e","w">>
A_export == <<"e","x","p","o","r","t">>
A_delete == <<"d","e","l","e","t","e">>
A_set_value == <<"s","e","t","-","v","a","l","u","e">>

KEYBOARD_EVENTS == {E_keydown, E_keyup, E_keypress}

(***************************************************************************)
(* The executor's mutable state during one call, and the results of its    *)
(* methods.  A method is modelled by the SET of results it can produce:    *)
(* the collaborators (page objects, driver, DOM) answer                    *)
(* nondeterministically, and every answer they can give is one element.    *)
(*   m     [active, page, calls]: _active_card, sql_manager_page.card and  *)
(*         the collaborator operations invoked so far                      *)
(*   r     [m, err, val]: state after the call, the exception raised (or   *)
(*         NoErr), the value returned                                      *)
(***************************************************************************)
NoErr == [type |-> "none"]
PyBool(b) == [t |-> "bool", b |-> b]
Card(c) == [t |-> "card", id |-> c]
Elem == [t |-> "elem"]

Cards == {"card1", "card2"}

Res(m, v) == [m |-> m, err |-> NoErr, val |-> v]
Fail(m, e) == [m |-> m, err |-> e, val |-> None]
\* how a call ended when it gave no value
Done == [t |-> "returned"]
Threw == [t |-> "raised"]
ThrewTypeError == [t |-> "TypeError"]
\* the injection script found nothing to set the value on
NotApplied == [t |-> "false"]

\* a collaborator call, logged with the answer it gave
Asked(m, op, a, ans) ==
    [m EXCEPT !.calls = Append(@, [op |-> op, arg |-> a, ans |-> ans])]

\* Sequencing: F runs on every result that did not raise.
Bind(S, F(_)) == UNION {IF r.err = NoErr THEN F(r) ELSE {r} : r \in S}
\* try/except Exception: H runs on every result that raised.
Catch(S, H(_)) == UNION {IF r.err = NoErr THEN {r} ELSE H(r) : r \in S}

CollabError == [type |-> "WebDriverException"]
TypeError == [type |-> "TypeError"]
AttributeError == [type |-> "AttributeError"]
NoSuchElement(what, line) ==
    [type |-> "NoSuchElementException", what |-> what, line |-> line]
RuntimeErr(what, line) == [type |-> "RuntimeError", what |-> what, line |-> line]

\* A page-object operation: it returns, or raises.
Op(m, op, a) ==
    {Res(Asked(m, op, a, Done), None), Fail(Asked(m, op, a, Threw), CollabError)}

\* driver.find_element_in_frames: an element, None, or an exception.
find_element_in_frames(m, locator) ==
    {Res(Asked(m, "find_element_in_frames", locator, ans), ans) : ans \in {Elem, None}}
    \cup {Fail(Asked(m, "find_element_in_frames", locator, Threw), CollabError)}

\* execute_script("return arguments[0].closest('.query-card');", element)
closest_query_card(m) ==
    {Res(Asked(m, "execute_script:closest", None, ans), ans) :
        ans \in {Card(c) : c \in alive} \cup {None}}
    \cup {Fail(Asked(m, "execute_script:closest", None, Threw), CollabError)}

\* sql_manager_page.expand_query_card: the card, or NoSuchElementException.
expand_query_card(m, query_name, connection_name) ==
    LET names == [query_name |-> query_name, connection_name |-> connection_name]
    IN  {Res(Asked(m, "expand_query_card", names, Card(c)), Card(c)) : c \in alive}
        \cup {Fail(Asked(m, "expand_query_card", names, Threw), CollabError)}

_element_is_alive(card) == card.t = "card" /\ card.id \in alive

(***************************************************************************)
(* Locator helpers and generic click.                                      *)
(***************************************************************************)
FromPure(m, p) == IF p.ok THEN Res(m, p.val) ELSE Fail(m, p.err)

_find_element(step, m) ==
    LET loc == _locator_from_step(step)
    IN  IF ~loc.ok THEN {Fail(m, loc.err)}
        ELSE IF ~Truthy(loc.val) THEN {Res(m, None)}
        ELSE find_element_in_frames(m, loc.val)

\* the click attempted whatever the locator
_click_generic_Unchecked(step, m) ==
    LET loc == _locator_from_step(step)
    IN  IF ~loc.ok THEN {Fail(m, loc.err)}
        ELSE Op(m, "_click_locator", loc.val)

_click_generic(step, m) ==
    LET loc == _locator_from_step(step)
    IN  IF ~loc.ok THEN {Fail(m, loc.err)}
        ELSE IF ~Truthy(loc.val)
        THEN {Fail(m, NoSuchElement("click locator", step.index))}
        ELSE Op(m, "_click_locator", loc.val)

(***************************************************************************)
(* Card helpers.                                                           *)
(***************************************************************************)
_set_active_card_LocalOnly(m, card) == [m EXCEPT !.active = card]
_set_active_card(m, card) == [m EXCEPT !.active = card, !.page = card]

\* the page's card adopted whatever it is
_sync_active_card_from_page_Unconditional(m) == [m EXCEPT !.active = m.page]

_sync_active_card_from_page(m) ==
    IF Truthy(m.page) /\ _element_is_alive(m.page)
    THEN [m EXCEPT !.active = m.page]
    ELSE m

\* (step.raw.get("queryName") or "").strip(), (step.connection_name or "").strip()
StrippedOrEmpty(v) ==
    LET x == PyOr(v, Str(<<>>)) IN IF IsStr(x) THEN Strip(x.s) ELSE <<>>
NoneIfEmpty(s) == IF s = <<>> THEN None ELSE Str(s)

\* stage (d) of _resolve_card: lookup by query name / connection name,
\* any exception swallowed
ResolveByName_Propagating(step, m) ==
    LET query_name == StrippedOrEmpty(Get(step.raw, "queryName"))
        connection_name == StrippedOrEmpty(step.connection_name)
    IN  IF query_name # <<>> \/ connection_name # <<>>
        THEN Bind(expand_query_card(m, NoneIfEmpty(query_name),
                                    NoneIfEmpty(connection_name)),
                  LAMBDA r : {Res(_set_active_card(r.m, r.val), r.val)})
        ELSE {Res(m, None)}

ResolveByName(step, m) ==
    LET query_name == StrippedOrEmpty(Get(step.raw, "queryName"))
        connection_name == StrippedOrEmpty(step.connection_name)
    IN  IF query_name # <<>> \/ connection_name # <<>>
        THEN Catch(
               Bind(expand_query_card(m, NoneIfEmpty(query_name),
                                      NoneIfEmpty(connection_name)),
                    LAMBDA r : {Res(_set_active_card(r.m, r.val), r.val)}),
               LAMBDA r : {Res(r.m, None)})
        ELSE {Res(m, None)}

\* stage (c) of _resolve_card: the composite ancestor of the located element
ResolveByElement(step, m) ==
    Bind(_find_element(step, m), LAMBDA r :
        IF Truthy(r.val)
        THEN Bind(closest_query_card(r.m), LAMBDA c :
                 IF Truthy(c.val)
                 THEN {Res(_set_active_card(c.m, c.val), c.val)}
                 ELSE {Res(c.m, None)})
        ELSE {Res(r.m, None)})

ResolveFromStep(step, required, m) ==
    Bind(ResolveByElement(step, m), LAMBDA r :
        IF Truthy(r.val) THEN {r}
        ELSE Bind(ResolveByName(step, r.m), LAMBDA n :
               IF Truthy(n.val) THEN {n}
               ELSE IF required
               THEN {Fail(n.m, RuntimeErr("Cannot resolve active query card",
                                          step.index))}
               ELSE {Res(n.m, None)}))

_resolve_card_ActiveFirst(step, required, m) ==
    IF Truthy(m.active) /\ _element_is_alive(m.active)
    THEN {Res([m EXCEPT !.page = m.active], m.active)}
    ELSE IF Truthy(m.page) /\ _element_is_alive(m.page)
    THEN {Res([m EXCEPT !.active = m.page], m.page)}
    ELSE ResolveFromStep(step, required, m)

_resolve_card(step, required, m) ==
    IF Truthy(m.page) /\ _element_is_alive(m.page)
    THEN {Res([m EXCEPT !.active = m.page], m.page)}
    ELSE IF Truthy(m.active) /\ _element_is_alive(m.active)
    THEN {Res([m EXCEPT !.page = m.active], m.active)}
    ELSE ResolveFromStep(step, required, m)

\* the composite of the clicked element remembered whatever is bound
_remember_active_card_Rebinding(step, m) ==
    LET m1 == _sync_active_card_from_page(m)
    IN  Bind(_find_element(step, m1), LAMBDA r :
           IF ~Truthy(r.val) THEN {Res(r.m, None)}
           ELSE Bind(closest_query_card(r.m), LAMBDA c :
                  IF Truthy(c.val)
                  THEN {Res(_set_active_card(c.m, c.val), None)}
                  ELSE {Res(c.m, None)}))

_remember_active_card(step, m) ==
    LET m1 == _sync_active_card_from_page(m)
    IN  IF Truthy(m1.active) THEN {Res(m1, None)}
        ELSE Bind(_find_element(step, m1), LAMBDA r :
               IF ~Truthy(r.val) THEN {Res(r.m, None)}
               ELSE Bind(closest_query_card(r.m), LAMBDA c :
                      IF Truthy(c.val)
                      THEN {Res(_set_active_card(c.m, c.val), None)}
                      ELSE {Res(c.m, None)}))

(***************************************************************************)
(* Recognizers.  A testId is a sequence of words and delimiters.           *)
(***************************************************************************)
TestId(step) == IF IsStr(step.test_id) THEN step.test_id.s ELSE <<>>
HasTestId(step) == Truthy(step.test_id) /\ IsStr(step.test_id)

T_dialog_menu_name_sqlreq == <<"dialog","-","menu","-","name","-","sqlreq">>
T_add_query_name == <<"sql","-","manager","-","add","-","query","-","name">>
T_export_destination_select == <<"export","-","destination","-","select">>
T_sql_manager_export_destination ==
    <<"sql","-","manager","-","export","-","destination">>
P_export_destination_option ==
    <<"custom","-","select","-","item","-","sql_manager_export_destination","-">>
P_cm_tree_connection == <<"cm","-","tree","-","connection","-">>
P_query_delete == <<"sql","-","manager","-","query","-","delete","-">>
P_sql_codemirror == <<"sql","-","codemirror","-">>
P_query_editor == <<"sql","-","manager","-","query","-","editor","-">>
P_main == <<"main","-">>
P_sql_home_open == <<"sql","-","home","-","open","-">>

_is_testid_prefix(step, prefix) ==
    /\ HasTestId(step)
    /\ \/ TestId(step) = prefix
       \/ IsPrefix(prefix \o <<"-">>, TestId(step))

_is_query_name_input(step) ==
    \/ step.element_id = Str(T_dialog_menu_name_sqlreq)
    \/ _is_testid_prefix(step, T_dialog_menu_name_sqlreq)
    \/ _is_testid_prefix(step, T_add_query_name)

_is_export_destination_select(step) ==
    \/ step.element_id = Str(T_export_destination_select)
    \/ _is_testid_prefix(step, T_export_destination_select)
    \/ _is_testid_prefix(step, T_sql_manager_export_destination)

_is_export_destination_option(step) ==
    HasTestId(step) /\ IsPrefix(P_export_destination_option, TestId(step))

_is_connection_item(step) ==
    HasTestId(step) /\ IsPrefix(P_cm_tree_connection, TestId(step))

_is_query_delete_button(step) ==
    HasTestId(step) /\ IsPrefix(P_query_delete, TestId(step))

\* every part of a query card taken for its editor
_is_codemirror_target_AnyQueryPart(step) ==
    /\ HasTestId(step)
    /\ \/ IsPrefix(P_sql_codemirror, TestId(step))
       \/ IsPrefix(<<"sql","-","manager","-","query","-">>, TestId(step))

_is_codemirror_target(step) ==
    /\ HasTestId(step)
    /\ \/ IsPrefix(P_sql_codemirror, TestId(step))
       \/ IsPrefix(P_query_editor, TestId(step))

(***************************************************************************)
(* Text heuristics.  Characters outside ASCII are written by name.         *)
(***************************************************************************)
ZeroWidthSpace == "U+200B"
Glyphs == <<"U+25B6", "U+25B8", "U+25BA">>
LabelNewFile == <<"<V novyi fail>">>
LabelCurrentDocument == <<"<V tekushchii dokument>">>

Without(s, c) == SelectSeq(s, LAMBDA x : x # c)

RECURSIVE LStripChar(_, _)
LStripChar(s, c) == IF s # <<>> /\ Head(s) = c THEN LStripChar(Tail(s), c) ELSE s

Contains(s, sub) ==
    \E i \in 1..(Len(s) - Len(sub) + 1) : SubSeq(s, i, i + Len(sub) - 1) = sub

TextOf(v) == LET x == PyOr(v, Str(<<>>)) IN IF IsStr(x) THEN x.s ELSE <<>>

_clean_connection_title(value) ==
    LET t0 == Strip(Without(TextOf(value), ZeroWidthSpace))
        t1 == Strip(LStripChar(t0, Glyphs[1]))
        t2 == Strip(LStripChar(t1, Glyphs[2]))
    IN  Strip(LStripChar(t2, Glyphs[3]))

_infer_export_destination_value(text) ==
    LET normalized == Lower(TextOf(text))
    IN  IF Contains(normalized, <<"cyr-n","cyr-o","cyr-v">>) THEN Str(<<"file">>)
        ELSE IF Contains(normalized, <<"cyr-t","cyr-e","cyr-k","cyr-u","cyr-shch">>)
        THEN Str(<<"document">>)
        ELSE IF \/ Contains(normalized, <<"n","e","w">>)
                \/ Contains(normalized, <<"n","o","v">>)
        THEN Str(<<"file">>)
        ELSE IF \/ Contains(normalized, <<"c","u","r","r","e","n","t">>)
                \/ Contains(normalized, <<"t","e","k","u","s","c","h">>)
        THEN Str(<<"document">>)
        ELSE None

\* the value's keywords consulted before the testId's suffix
_infer_export_destination_visible_text_KeywordsFirst(step) ==
    LET text == Strip(TextOf(step.text))
        value == _infer_export_destination_value(step.value)
    IN  IF text # <<>> THEN Str(text)
        ELSE IF value = Str(<<"file">>) THEN Str(LabelNewFile)
        ELSE IF value = Str(<<"document">>) THEN Str(LabelCurrentDocument)
        ELSE IF IsSuffix(<<"-","file">>, TestId(step)) THEN Str(LabelNewFile)
        ELSE IF IsSuffix(<<"-","document">>, TestId(step))
        THEN Str(LabelCurrentDocument)
        ELSE None

_infer_export_destination_visible_text(step) ==
    LET text == Strip(TextOf(step.text))
        value == _infer_export_destination_value(step.value)
    IN  IF text # <<>> THEN Str(text)
        ELSE IF IsSuffix(<<"-","file">>, TestId(step)) THEN Str(LabelNewFile)
        ELSE IF IsSuffix(<<"-","document">>, TestId(step))
        THEN Str(LabelCurrentDocument)
        ELSE IF value = Str(<<"file">>) THEN Str(LabelNewFile)
        ELSE IF value = Str(<<"document">>) THEN Str(LabelCurrentDocument)
        ELSE None

(***************************************************************************)
(* Route helpers.                                                          *)
(***************************************************************************)
Route(tid, page, method) == [test_id |-> tid, page |-> page, method |-> method]

_exact_click_routes ==
    { Route(<<"main","-","sql","-","mode">>, "plugin_page", "click_main_sql_mode"),
      Route(<<"main","-","olap","-","mode">>, "plugin_page", "click_main_olap_mode"),
      Route(<<"main","-","file","-","mode">>, "plugin_page", "click_main_file_mode"),
      Route(<<"main","-","smartdocs">>, "plugin_page", "click_main_smartdocs"),
      Route(<<"main","-","connection","-","manager">>, "plugin_page",
            "click_main_connection_manager"),
      Route(<<"main","-","settings">>, "plugin_page", "click_main_settings"),
      Route(<<"main","-","about">>, "plugin_page", "click_main_about"),
      Route(<<"sql","-","home","-","open","-","sql","-","manager">>,
            "sql_mode_page", "click_sql_manager"),
      Route(<<"sql","-","home","-","open","-","report","-","manager">>,
            "sql_mode_page", "click_report_manager"),
      Route(<<"sql","-","home","-","open","-","query","-","history">>,
            "sql_mode_page", "click_query_history"),
      Route(<<"sql","-","home","-","open","-","log">>, "sql_mode_page", "click_log"),
      Route(<<"sql","-","manager","-","add","-","query","-","open">>,
            "sql_manager_page", "click_add_query_button"),
      Route(<<"sql","-","manager","-","add","-","query","-","confirm">>,
            "sql_manager_page", "confirm_add_query"),
      Route(<<"sql","-","manager","-","export","-","confirm">>,
            "sql_manager_page", "confirm_export"),
      Route(<<"messagebox","-","button","-","OK","-","0">>,
            "sql_manager_page", "click_success_ok"),
      Route(<<"sql","-","manager","-","minimize">>, "sql_manager_page", "minimize"),
      Route(<<"sql","-","manager","-","toggle","-","left","-","panel">>,
            "sql_manager_page", "toggle_left_panel_panel") }

ExactRoute(tid) == {r \in _exact_click_routes : r.test_id = tid}

\* test_id.replace('-', '_')
Underscored(s) == [i \in 1..Len(s) |-> IF s[i] = "-" THEN "_" ELSE s[i]]

\* getattr + call: the attribute is missing or not callable; the call
\* returns; it raises TypeError (swallowed); it raises anything else.
_call_noarg(m, page_obj, method_name) ==
    LET call == [page |-> page_obj, attr |-> method_name]
    IN  {Res(m, PyBool(FALSE)),
         Res(Asked(m, "derived", call, Done), PyBool(TRUE)),
         Res(Asked(m, "derived", call, ThrewTypeError), PyBool(FALSE)),
         Fail(Asked(m, "derived", call, Threw), CollabError)}

DispatchSqlHomeOpen(step, m) ==
    IF IsPrefix(P_sql_home_open, TestId(step))
    THEN _call_noarg(m, "sql_mode_page",
            <<"click_">> \o Underscored(SubSeq(TestId(step), Len(P_sql_home_open) + 1,
                                               Len(TestId(step)))))
    ELSE {Res(m, PyBool(FALSE))}

DispatchMain(step, m) ==
    IF IsPrefix(P_main, TestId(step))
    THEN Bind(_call_noarg(m, "plugin_page",
                          <<"click_">> \o Underscored(TestId(step))),
              LAMBDA r : IF r.val.b THEN {r} ELSE DispatchSqlHomeOpen(step, r.m))
    ELSE DispatchSqlHomeOpen(step, m)

\* the derived-name lookup tried before the exact table
_dispatch_click_route_DerivedFirst(step, m) ==
    IF ~HasTestId(step) THEN {Res(m, PyBool(FALSE))}
    ELSE Bind(DispatchMain(step, m), LAMBDA d :
           IF d.val.b \/ ExactRoute(TestId(step)) = {} THEN {d}
           ELSE LET route == CHOOSE r \in ExactRoute(TestId(step)) : TRUE
                IN  Bind(Op(d.m, "route",
                            [page |-> route.page, method |-> route.method]),
                         LAMBDA r : {Res(r.m, PyBool(TRUE))}))

_dispatch_click_route(step, m) ==
    IF ~HasTestId(step) THEN {Res(m, PyBool(FALSE))}
    ELSE IF ExactRoute(TestId(step)) # {}
    THEN LET route == CHOOSE r \in ExactRoute(TestId(step)) : TRUE
         IN  Bind(Op(m, "route", [page |-> route.page, method |-> route.method]),
                  LAMBDA r : {Res(r.m, PyBool(TRUE))})
    ELSE DispatchMain(step, m)

(***************************************************************************)
(* Action implementations.                                                 *)
(***************************************************************************)
ValueOrEmpty(step) == PyOr(step.value, Str(<<>>))

\* _find_child_by_testid(card, "sql-codemirror"), then
\* _find_child_by_testid(card, "sql-manager-query-editor")
FindEditor(m) ==
    Catch(Op(m, "_find_child_by_testid", Str(<<"sql","-","codemirror">>)),
          LAMBDA r : Op(r.m, "_find_child_by_testid",
                        Str(<<"sql","-","manager","-","query","-","editor">>)))

_activate_codemirror(step, m) ==
    Bind(_resolve_card(step, FALSE, m), LAMBDA c :
        IF ~Truthy(c.val) THEN {Res(c.m, PyBool(FALSE))}
        ELSE UNION {
               IF e.err # NoErr THEN {Res(e.m, PyBool(FALSE))}
               ELSE Bind(Op(e.m, "_js_click", None), LAMBDA j :
                        {Res(_set_active_card(j.m, c.val), PyBool(TRUE))})
               : e \in FindEditor(c.m)})

\* the activated connection's item remembered as the active card
_activate_connection_Remembering(step, m) ==
    LET given == StrippedOrEmpty(step.connection_name)
        connection_name ==
            IF given # <<>> THEN given ELSE _clean_connection_title(step.text)
    IN  IF connection_name # <<>>
        THEN Bind(Op(m, "select_connection", Str(connection_name)),
                  LAMBDA r : _remember_active_card(step, r.m))
        ELSE Bind(_click_generic(step, m),
                  LAMBDA r : _remember_active_card(step, r.m))

_activate_connection(step, m) ==
    LET given == StrippedOrEmpty(step.connection_name)
        connection_name ==
            IF given # <<>> THEN given ELSE _clean_connection_title(step.text)
    IN  IF connection_name # <<>>
        THEN Op(m, "select_connection", Str(connection_name))
        ELSE _click_generic(step, m)

_activate_export_destination_option(step, m) ==
    LET visible_text == _infer_export_destination_visible_text(step)
    IN  IF ~Truthy(visible_text) THEN _click_generic(step, m)
        ELSE Op(m, "select_export_destination", visible_text)

\* Select(element).select_by_value, else select_by_visible_text, else a
\* script assignment; then the change notification.
_set_select_value(m, value) ==
    Bind(Catch(Op(m, "select_by_value", value), LAMBDA r :
           Catch(Op(r.m, "select_by_visible_text", value), LAMBDA t :
             Op(t.m, "execute_script:assign", value))),
         LAMBDA r : Op(r.m, "execute_script:change", None))

\* element.tag_name: input/textarea, select, anything else
ElementTags == {"input", "select", "other"}

SetValueOn(m, value) ==
    UNION {
      CASE tag = "input" ->
             Bind(Op(m, "element.clear", None),
                  LAMBDA r : Op(r.m, "element.send_keys", value))
        [] tag = "select" -> _set_select_value(m, value)
        [] OTHER -> Op(m, "execute_script:set_value", value)
      : tag \in ElementTags}

_set_value_generic(step, m) ==
    Bind(_find_element(step, m), LAMBDA r :
        IF ~Truthy(r.val)
        THEN {Fail(r.m, NoSuchElement("input element", step.index))}
        ELSE SetValueOn(r.m, ValueOrEmpty(step)))

\* the injection script: applied (true), not applied (false), or it raises
_set_codemirror_generic(step, m) ==
    Bind(_find_element(step, m), LAMBDA r :
        IF ~Truthy(r.val)
        THEN {Fail(r.m, NoSuchElement("codemirror element", step.index))}
        ELSE LET value == ValueOrEmpty(step)
             IN  {Res(Asked(r.m, "execute_script:codemirror", value, Done), None),
                  Fail(Asked(r.m, "execute_script:codemirror", value, NotApplied),
                       RuntimeErr("Cannot apply codemirror value", step.index)),
                  Fail(Asked(r.m, "execute_script:codemirror", value, Threw),
                       CollabError)})

_set_export_destination(step, m) ==
    LET value == PyOr(step.value, _infer_export_destination_value(step.text))
    IN  IF ~Truthy(value) THEN _set_value_generic(step, m)
        ELSE Bind(_find_element(step, m), LAMBDA r :
               IF Truthy(r.val) THEN _set_select_value(r.m, value)
               ELSE Bind(find_element_in_frames(r.m,
                           CssLocator(Str(TestIdSelector(
                               T_sql_manager_export_destination)))),
                         LAMBDA f :
                           IF Truthy(f.val) THEN _set_select_value(f.m, value)
                           ELSE {Fail(f.m, NoSuchElement(
                                    "Export destination select", 0))}))

(***************************************************************************)
(* Dispatch handlers.                                                      *)
(***************************************************************************)
\* preview delegated whether or not a card was resolved
_handle_click_preview_NotRequired(step, m) ==
    Bind(_resolve_card(step, FALSE, m),
         LAMBDA r : Op(r.m, "click_query_preview", None))

_handle_click_preview(step, m) ==
    Bind(_resolve_card(step, TRUE, m),
         LAMBDA r : Op(r.m, "click_query_preview", None))

_handle_click_export(step, m) ==
    Bind(_resolve_card(step, TRUE, m), LAMBDA r : Op(r.m, "click_export", None))

\* the context cleared before the page is asked to delete
_handle_click_delete_ClearsEarly(step, m) ==
    Bind(_resolve_card(step, TRUE, m), LAMBDA r :
        Op([r.m EXCEPT !.active = None, !.page = None], "click_query_delete", None))

_handle_click_delete_LocalOnly(step, m) ==
    Bind(_resolve_card(step, TRUE, m), LAMBDA r :
        Bind(Op(r.m, "click_query_delete", None), LAMBDA d :
            {Res([d.m EXCEPT !.active = None], None)}))

_handle_click_delete_KeepsCard(step, m) ==
    Bind(_resolve_card(step, TRUE, m), LAMBDA r :
        Op(r.m, "click_query_delete", None))

_handle_click_delete(step, m) ==
    Bind(_resolve_card(step, TRUE, m), LAMBDA r :
        Bind(Op(r.m, "click_query_delete", None), LAMBDA d :
            {Res([d.m EXCEPT !.active = None, !.page = None], None)}))

\* the remember attempt made before the click
ClickAndRemember_RememberFirst(step, m) ==
    Bind(_remember_active_card(step, m), LAMBDA r : _click_generic(step, r.m))

ClickAndRemember(step, m) ==
    Bind(_click_generic(step, m), LAMBDA r : _remember_active_card(step, r.m))

\* a routed click that goes on to the generic click
_handle_click_activate_ClicksToo(step, m) ==
    Bind(_dispatch_click_route(step, m), LAMBDA r : ClickAndRemember(step, r.m))

\* a code-editor target handled by its activation whatever it returned
_handle_click_activate_NoFallThrough(step, m) ==
    Bind(_dispatch_click_route(step, m), LAMBDA r :
        IF r.val.b THEN {Res(_sync_active_card_from_page(r.m), None)}
        ELSE IF _is_connection_item(step) THEN _activate_connection(step, r.m)
        ELSE IF _is_query_delete_button(step) THEN _handle_click_delete(step, r.m)
        ELSE IF _is_export_destination_option(step)
        THEN _activate_export_destination_option(step, r.m)
        ELSE IF _is_codemirror_target(step)
        THEN Bind(_activate_codemirror(step, r.m), LAMBDA a : {Res(a.m, None)})
        ELSE ClickAndRemember(step, r.m))

_handle_click_activate(step, m) ==
    Bind(_dispatch_click_route(step, m), LAMBDA r :
        IF r.val.b THEN {Res(_sync_active_card_from_page(r.m), None)}
        ELSE IF _is_connection_item(step) THEN _activate_connection(step, r.m)
        ELSE IF _is_query_delete_button(step) THEN _handle_click_delete(step, r.m)
        ELSE IF _is_export_destination_option(step)
        THEN _activate_export_destination_option(step, r.m)
        ELSE IF _is_codemirror_target(step)
        THEN Bind(_activate_codemirror(step, r.m), LAMBDA a :
                 IF a.val.b THEN {Res(a.m, None)}
                 ELSE ClickAndRemember(step, a.m))
        ELSE ClickAndRemember(step, r.m))

_handle_input_set_value(step, m) ==
    IF _is_query_name_input(step)
    THEN Op(m, "enter_query_name", ValueOrEmpty(step))
    ELSE IF _is_export_destination_select(step)
    THEN _set_export_destination(step, m)
    ELSE _set_value_generic(step, m)

_handle_change_set_value(step, m) ==
    IF _is_query_name_input(step)
    THEN Op(m, "enter_query_name", ValueOrEmpty(step))
    ELSE IF _is_export_destination_select(step)
    THEN _set_export_destination(step, m)
    ELSE _set_value_generic(step, m)

\* the generic injection whether or not a card was resolved
_handle_codemirror_set_value_GenericOnly(step, m) ==
    Bind(_resolve_card(step, FALSE, m), LAMBDA c :
        _set_codemirror_generic(step, c.m))

_handle_codemirror_set_value(step, m) ==
    Bind(_resolve_card(step, FALSE, m), LAMBDA c :
        IF Truthy(c.val) THEN Op(c.m, "set_query_text", ValueOrEmpty(step))
        ELSE _set_codemirror_generic(step, c.m))

\* keyboard events given no branch of their own
_handle_unmapped_action_NoKeyboardSkip(step, m) ==
    IF step.event = E_click THEN ClickAndRemember(step, m)
    ELSE IF step.event \in {E_input, E_change} /\ step.value # None
    THEN _set_value_generic(step, m)
    ELSE IF step.event = E_codemirror_change /\ step.value # None
    THEN _set_codemirror_generic(step, m)
    ELSE {Fail(m, [type |-> "RuntimeError", what |-> "No handler",
                   line |-> step.index, event |-> step.event,
                   action |-> step.action])}

\* a step with no fallback skipped instead of refused
_handle_unmapped_action_SkipsUnknown(step, m) ==
    IF step.event \in KEYBOARD_EVENTS THEN {Res(m, None)}
    ELSE IF step.event = E_click THEN ClickAndRemember(step, m)
    ELSE IF step.event \in {E_input, E_change} /\ step.value # None
    THEN _set_value_generic(step, m)
    ELSE IF step.event = E_codemirror_change /\ step.value # None
    THEN _set_codemirror_generic(step, m)
    ELSE {Res(m, None)}

\* every click taken to the route tables first
_handle_unmapped_action_Routing(step, m) ==
    IF step.event \in KEYBOARD_EVENTS THEN {Res(m, None)}
    ELSE IF step.event = E_click THEN _handle_click_activate(step, m)
    ELSE IF step.event \in {E_input, E_change} /\ step.value # None
    THEN _set_value_generic(step, m)
    ELSE IF step.event = E_codemirror_change /\ step.value # None
    THEN _set_codemirror_generic(step, m)
    ELSE {Fail(m, [type |-> "RuntimeError", what |-> "No handler",
                   line |-> step.index, event |-> step.event,
                   action |-> step.action])}

_handle_unmapped_action(step, m) ==
    IF step.event \in KEYBOARD_EVENTS THEN {Res(m, None)}
    ELSE IF step.event = E_click THEN ClickAndRemember(step, m)
    ELSE IF step.event \in {E_input, E_change} /\ step.value # None
    THEN _set_value_generic(step, m)
    ELSE IF step.event = E_codemirror_change /\ step.value # None
    THEN _set_codemirror_generic(step, m)
    ELSE {Fail(m, [type |-> "RuntimeError", what |-> "No handler",
                   line |-> step.index, event |-> step.event,
                   action |-> step.action])}

\* self._handlers.get(step.action_key)
execute_step(step, m) ==
    LET key == <<step.event, step.action>>
    IN  CASE key = <<E_click, A_activate>> -> _handle_click_activate(step, m)
          [] key = <<E_click, A_preview>> -> _handle_click_preview(step, m)
          [] key = <<E_click, A_export>> -> _handle_click_export(step, m)
          [] key = <<E_click, A_delete>> -> _handle_click_delete(step, m)
          [] key = <<E_input, A_set_value>> -> _handle_input_set_value(step, m)
          [] key = <<E_change, A_set_value>> -> _handle_change_set_value(step, m)
          [] key = <<E_codemirror_change, A_set_value>> ->
                 _handle_codemirror_set_value(step, m)
          [] OTHER -> _handle_unmapped_action(step, m)

(***************************************************************************)
(* SimpleInteractionLogExecutor.                                           *)
(***************************************************************************)
\* A skip rule is the sequence of its (key, expected) items; a key is the
\* field name followed, for a prefix comparison, by "__startswith".
RuleItem(key, expected) == [key |-> key, expected |-> expected]

DEFAULT_SKIP_RULES ==
    << <<RuleItem(<<"event">>, Str(E_input)),
         RuleItem(<<"action">>, Str(A_set_value)),
         RuleItem(<<"testId">>, Str(T_add_query_name))>>,
       <<RuleItem(<<"event">>, Str(E_click)),
         RuleItem(<<"action">>, Str(A_activate)),
         RuleItem(<<"testId">>, Str(<<"sql","-","codemirror">>))>> >>

_parse_rule_key(key) ==
    IF IsSuffix(<<"__startswith">>, key)
    THEN [field |-> SubSeq(key, 1, Len(key) - 1), op |-> "startswith"]
    ELSE [field |-> key, op |-> "eq"]

_get_step_field(step, key) ==
    CASE key = <<"event">> -> Str(step.event)
      [] key = <<"action">> -> Str(step.action)
      [] key \in {<<"testId">>, <<"test_id">>} -> step.test_id
      [] key \in {<<"elementId">>, <<"id">>, <<"element_id">>} -> step.element_id
      [] key \in {<<"queryKey">>, <<"query_key">>} -> step.query_key
      [] key \in {<<"connectionName">>, <<"connection_name">>} ->
             step.connection_name
      [] key = <<"selector">> -> step.selector
      [] key = <<"text">> -> step.text
      [] key = <<"value">> -> step.value
      [] key = <<"seq">> -> step.seq
      [] OTHER -> IF Len(key) = 1 THEN Get(step.raw, key[1]) ELSE None

ItemMatches(step, item) ==
    LET parsed == _parse_rule_key(item.key)
        actual == _get_step_field(step, parsed.field)
    IN  IF parsed.op = "startswith"
        THEN /\ actual # None
             /\ IsStr(actual) /\ IsStr(item.expected)
             /\ IsPrefix(item.expected.s, actual.s)
        ELSE actual = item.expected

\* a rule taken to match as soon as one of its conditions holds
_rule_matches_AnyItem(step, rule) ==
    \E i \in 1..Len(rule) : ItemMatches(step, rule[i])

_rule_matches(step, rule) == \A i \in 1..Len(rule) : ItemMatches(step, rule[i])

_should_skip_step(step, rules) ==
    \E i \in 1..Len(rules) : _rule_matches(step, rules[i])

Simple_click_generic(step, m) ==
    LET loc == Simple_locator_from_step(step)
    IN  IF ~loc.ok THEN {Fail(m, loc.err)}
        ELSE IF ~Truthy(loc.val)
        THEN {Fail(m, NoSuchElement("click locator", step.index))}
        ELSE Op(m, "_click_locator", loc.val)

\* ((step.text or "").strip() or (step.value or "").strip())
TextOrValue(step) ==
    LET t == Strip(TextOf(step.text)) IN
    IF t # <<>> THEN t ELSE Strip(TextOf(step.value))

_set_query_text_from_step(step, m) ==
    IF step.value = None
    THEN {Fail(m, RuntimeErr("codemirror-change has no value", step.index))}
    ELSE Op(m, "set_query_text", step.value)

_set_query_name_from_step(step, m) ==
    LET value == Strip(TextOf(step.value))
    IN  IF value = <<>> THEN {Res(m, None)}
        ELSE Op(m, "enter_query_name", Str(value))

_set_export_destination_from_step(step, m) ==
    IF TextOrValue(step) = <<>> THEN {Res(m, None)}
    ELSE Op(m, "select_export_destination", Str(TextOrValue(step)))

_delete_active_query(m) ==
    Bind(Op(m, "click_query_delete", None),
         LAMBDA r : {Res([r.m EXCEPT !.page = None], None)})

\* click_routes_exact: the routes of the full executor plus two handlers
\* that read the step
SimpleExact(step, m) ==
    IF TestId(step) = T_add_query_name THEN _set_query_name_from_step(step, m)
    ELSE IF TestId(step) = T_sql_manager_export_destination
    THEN _set_export_destination_from_step(step, m)
    ELSE LET route == CHOOSE r \in ExactRoute(TestId(step)) : TRUE
         IN  Op(m, "route", [page |-> route.page, method |-> route.method])

HasSimpleExact(step) ==
    \/ TestId(step) \in {T_add_query_name, T_sql_manager_export_destination}
    \/ ExactRoute(TestId(step)) # {}

\* click_routes_prefix, in declaration order
click_routes_prefix ==
    << P_cm_tree_connection,
       <<"sql","-","manager","-","query","-","preview","-">>,
       <<"sql","-","manager","-","query","-","export","-">>,
       P_query_delete,
       P_query_editor,
       P_export_destination_option >>

PrefixHandler(i, step, m) ==
    CASE i = 1 -> IF StrippedOrEmpty(step.connection_name) # <<>>
                  THEN Op(m, "select_connection",
                          Str(StrippedOrEmpty(step.connection_name)))
                  ELSE Simple_click_generic(step, m)
      [] i = 2 -> Op(m, "click_query_preview", None)
      [] i = 3 -> Op(m, "click_export", None)
      [] i = 4 -> _delete_active_query(m)
      [] i = 5 -> _set_query_text_from_step(step, m)
      [] OTHER -> IF TextOrValue(step) # <<>>
                  THEN Op(m, "select_export_destination", Str(TextOrValue(step)))
                  ELSE Simple_click_generic(step, m)

MatchingPrefixes(step) ==
    {i \in 1..Len(click_routes_prefix) : IsPrefix(click_routes_prefix[i], TestId(step))}

FirstOf(S) == CHOOSE i \in S : \A j \in S : i <= j

\* a prefix handler's return not taken as "dispatched"
_dispatch_by_test_id_PrefixUnreported(step, m) ==
    IF ~HasTestId(step) THEN {Res(m, PyBool(FALSE))}
    ELSE IF HasSimpleExact(step)
    THEN Bind(SimpleExact(step, m), LAMBDA r : {Res(r.m, PyBool(TRUE))})
    ELSE IF MatchingPrefixes(step) # {}
    THEN Bind(PrefixHandler(FirstOf(MatchingPrefixes(step)), step, m),
              LAMBDA r : {Res(r.m, PyBool(FALSE))})
    ELSE {Res(m, PyBool(FALSE))}

_dispatch_by_test_id(step, m) ==
    IF ~HasTestId(step) THEN {Res(m, PyBool(FALSE))}
    ELSE IF HasSimpleExact(step)
    THEN Bind(SimpleExact(step, m), LAMBDA r : {Res(r.m, PyBool(TRUE))})
    ELSE IF MatchingPrefixes(step) # {}
    THEN Bind(PrefixHandler(FirstOf(MatchingPrefixes(step)), step, m),
              LAMBDA r : {Res(r.m, PyBool(TRUE))})
    ELSE {Res(m, PyBool(FALSE))}

\* execute_step past the skip rules: the route tables, then the generic
\* click of a click step
SimpleDispatch(step, m) ==
    Bind(_dispatch_by_test_id(step, m), LAMBDA r :
        IF r.val.b THEN {Res(r.m, None)}
        ELSE IF step.event = E_click THEN Simple_click_generic(step, r.m)
        ELSE {Res(r.m, None)})

Simple_execute_step(step, m) ==
    IF _should_skip_step(step, skip_rules) THEN {Res(m, None)}
    ELSE SimpleDispatch(step, m)

(***************************************************************************)
(* read_interaction_log.  A line of the file is one of                     *)
(*   [kind |-> "empty"]              nothing before the line break         *)
(*   [kind |-> "spaces"]             whitespace only                       *)
(*   [kind |-> "badjson"]            json.loads raises JSONDecodeError     *)
(*   [kind |-> "scalar"]             valid JSON that is not an object      *)
(*   [kind |-> "object", raw |-> r]  a JSON object                         *)
(***************************************************************************)
NoFile == [exists |-> FALSE]
LogFile(lines) == [exists |-> TRUE, lines |-> lines]

\* payload = line.strip(); `if not payload`
IsBlank(line) == line.kind \in {"empty", "spaces"}

\* index=line_number
StepIndex_Position(line_number, read) == Len(read) + 1
StepIndex(line_number, read) == line_number

\* steps.append(...)
AppendStep_Front(read, step) == <<step>> \o read
AppendStep(read, step) == Append(read, step)

ValueError(what, line_number) ==
    [type |-> "ValueError", what |-> what, line |-> line_number]

\* One iteration of the for loop: the steps read so far, or the exception.
ReadLine_Lenient(line, line_number, read) ==
    IF IsBlank(line) \/ line.kind \in {"badjson", "scalar"} THEN Ok(read)
    ELSE LET parsed == from_raw(line.raw, StepIndex(line_number, read))
         IN  IF parsed.ok THEN Ok(AppendStep(read, parsed.val)) ELSE Ok(read)

ReadLine(line, line_number, read) ==
    IF IsBlank(line) THEN Ok(read)
    ELSE IF line.kind = "badjson"
    THEN Raised(ValueError("Invalid JSON", line_number))
    ELSE IF line.kind # "object"
    THEN Raised(ValueError("JSON line must be an object", line_number))
    ELSE LET parsed == from_raw(line.raw, StepIndex(line_number, read))
         IN  IF parsed.ok THEN Ok(AppendStep(read, parsed.val)) ELSE parsed

(***************************************************************************)
(* replay_steps: the except block of the loop.                             *)
(***************************************************************************)
ReplayFailure(step, error) == [step |-> step, error |-> error]

\* failures.append(failure); the simple executor keeps no list
RecordFailure_Dropped(v, fs, step, error) == fs
RecordFailure_Front(v, fs, step, error) ==
    IF v = "full" THEN <<ReplayFailure(step, error)>> \o fs ELSE fs
RecordFailure(v, fs, step, error) ==
    IF v = "full" THEN Append(fs, ReplayFailure(step, error)) ELSE fs

\* the f-string of the message, and `raise RuntimeError(message) from exc`
ReplayError_NoContext(step, exc) ==
    [type |-> "RuntimeError", what |-> "Replay failed", cause |-> exc]
ReplayError(step, exc) ==
    [type |-> "RuntimeError", what |-> "Replay failed",
     line |-> step.index, seq |-> step.seq, event |-> step.event,
     action |-> step.action, testId |-> step.test_id, cause |-> exc]

\* `if stop_on_error:`
AbortsOnFailure_Never(stop) == FALSE
AbortsOnFailure(stop) == stop

(***************************************************************************)
(* The state machine.                                                      *)
(***************************************************************************)
Running == [kind |-> "running"]
Returned(v) == [kind |-> "returned", val |-> v]
ReturnedNone == [kind |-> "returned"]
Raising(e) == [kind |-> "raised", error |-> e]

M == [active |-> active_card, page |-> page_card, calls |-> calls]

Execute(v, step, m) ==
    IF v = "full" THEN execute_step(step, m) ELSE Simple_execute_step(step, m)

\* read_interaction_log: `if not path.exists(): raise FileNotFoundError`
OpenLog ==
    /\ pc = "open"
    /\ IF file.exists
       THEN pc' = "read" /\ outcome' = outcome
       ELSE pc' = "done" /\ outcome' = Raising([type |-> "FileNotFoundError"])
    /\ UNCHANGED <<file, lineno, steps, stop_on_error, prepare, pos, failures,
                   executed, calls, active_card, page_card, alive, variant,
                   arg, raw_index, trace, ret,
                   use_last_session, skip_rules>>

\* read_interaction_log: one iteration of `for line_number, line in ...`
ReadNextLine ==
    /\ pc = "read"
    /\ lineno < Len(file.lines)
    /\ LET got == ReadLine(file.lines[lineno + 1], lineno + 1, steps)
       IN  IF got.ok
           THEN /\ steps' = got.val
                /\ UNCHANGED <<pc, outcome>>
           ELSE /\ pc' = "done"
                /\ outcome' = Raising(got.err)
                /\ steps' = steps
    /\ lineno' = lineno + 1
    /\ UNCHANGED <<file, stop_on_error, prepare, pos, failures, executed, calls,
                   active_card, page_card, alive, variant, arg, raw_index, trace,
                   ret,
                   use_last_session, skip_rules>>

\* replay_file: `if use_last_session: self.logger.warning(...)`, which
\* leaves the steps read as they are
StepsToReplay_LastSession(read, flag) ==
    LET restarts == {i \in 2..Len(read) :
                        /\ read[i].seq # None /\ read[i - 1].seq # None
                        /\ read[i].seq.n < read[i - 1].seq.n}
        first == IF restarts = {} THEN 1
                 ELSE CHOOSE i \in restarts : \A j \in restarts : j <= i
    IN  IF flag THEN SubSeq(read, first, Len(read)) ELSE read

StepsToReplay(read, flag) == read

\* read_interaction_log: `return steps`, and replay_file's look at the flag
EndOfLog ==
    /\ pc = "read"
    /\ lineno = Len(file.lines)
    /\ pc' = "prepare"
    /\ steps' = StepsToReplay(steps, use_last_session)
    /\ UNCHANGED <<file, lineno, stop_on_error, prepare, pos, failures,
                   executed, calls, active_card, page_card, alive, outcome,
                   variant, arg, raw_index, trace,
                   ret,
                   use_last_session, skip_rules>>

\* prepare_plugin_home: three collaborator operations in a row
prepare_plugin_home(m) ==
    Bind(Op(m, "open_creation_cell", None), LAMBDA a :
        Bind(Op(a.m, "click_plugin_button", None), LAMBDA b :
            Op(b.m, "try_click_close", None)))

\* replay_file: `if prepare_plugin_home: self.prepare_plugin_home()`
PreparePluginHome ==
    /\ pc = "prepare"
    /\ \E r \in (IF prepare THEN prepare_plugin_home(M) ELSE {Res(M, None)}) :
          /\ calls' = r.m.calls
          /\ IF r.err = NoErr
             THEN pc' = "replay" /\ outcome' = outcome
             ELSE pc' = "done" /\ outcome' = Raising(r.err)
    /\ UNCHANGED <<file, lineno, steps, stop_on_error, prepare, pos, failures,
                   executed, active_card, page_card, alive, variant, arg, raw_index, trace,
                   ret,
                   use_last_session, skip_rules>>

\* replay_steps: one iteration of `for step in steps`
ExecuteStep ==
    /\ pc = "replay"
    /\ pos < Len(steps)
    /\ LET step == steps[pos + 1] IN
       \E r \in Execute(variant, step, M) :
          /\ executed' = Append(executed,
                [step |-> step, err |-> r.err,
                 ops |-> SubSeq(r.m.calls, Len(calls) + 1, Len(r.m.calls)),
                 before |-> [active |-> active_card, page |-> page_card],
                 after |-> [active |-> r.m.active, page |-> r.m.page]])
          /\ pos' = pos + 1
          /\ calls' = r.m.calls
          /\ active_card' = r.m.active
          /\ page_card' = r.m.page
          /\ IF r.err = NoErr
             THEN UNCHANGED <<failures, pc, outcome>>
             ELSE /\ failures' = RecordFailure(variant, failures, step, r.err)
                  /\ IF AbortsOnFailure(stop_on_error)
                     THEN /\ pc' = "done"
                          /\ outcome' = Raising(ReplayError(step, r.err))
                     ELSE UNCHANGED <<pc, outcome>>
    /\ UNCHANGED <<file, lineno, steps, stop_on_error, prepare, alive, variant,
                   arg, raw_index, trace, ret,
                   use_last_session, skip_rules>>

\* replay_steps: `return failures` (the simple executor returns None)
ReturnFailures ==
    /\ pc = "replay"
    /\ pos = Len(steps)
    /\ pc' = "done"
    /\ outcome' = IF variant = "full" THEN Returned(failures) ELSE ReturnedNone
    /\ UNCHANGED <<file, lineno, steps, stop_on_error, prepare, pos, failures,
                   executed, calls, active_card, page_card, alive, variant,
                   arg, raw_index, trace, ret,
                   use_last_session, skip_rules>>

\* The application re-renders: a card reference goes stale, for good.
ElementGoesStale ==
    /\ pc = "replay"
    /\ pos < Len(steps)
    /\ \E c \in alive : alive' = alive \ {c}
    /\ UNCHANGED <<pc, file, lineno, steps, stop_on_error, prepare, pos,
                   failures, executed, calls, active_card, page_card, outcome,
                   variant, arg, raw_index, trace,
                   ret,
                   use_last_session, skip_rules>>

(***************************************************************************)
(* Inputs.                                                                 *)
(***************************************************************************)
SeqsUpTo(S, n) == UNION {[1..k -> S] : k \in 0..n}

Chars(event, action) == [event |-> Str(event), action |-> Str(action)]
With(r, key, v) == [k \in DOMAIN r \cup {key} |-> IF k = key THEN v ELSE r[k]]

\* Recorded events handed to replay_steps.
ReplayRaws ==
    { \* a routed navigation click
      With(With(Chars(E_click, A_activate), "testId",
                Str(<<"main","-","sql","-","mode">>)), "seq", Num(1)),
      \* a click with a selector only: generic click, then remember
      With(With(Chars(E_click, A_activate), "selector", Str(<<"#run">>)),
           "seq", Num(2)),
      \* preview of the active card, resolvable by name
      With(Chars(E_click, A_preview), "connectionName", Str(<<"o","r","a">>)),
      \* a keyboard event on a routed testId
      With(Chars(E_keydown, <<>>), "testId", Str(<<"main","-","about">>)),
      \* an event with no handler
      With(Chars(<<"s","c","r","o","l","l">>, <<>>), "seq", Num(0)) }

\* The line number of the i-th step handed to replay_steps.
IndexOf(i) == i + i

StepsOf(raws) == [i \in 1..Len(raws) |-> from_raw(raws[i], IndexOf(i)).val]

InitCommon ==
    /\ lineno = 0
    /\ pos = 0
    /\ failures = <<>>
    /\ executed = <<>>
    /\ calls = <<>>
    /\ active_card = None
    /\ page_card = None
    /\ alive = Cards
    /\ outcome = Running
    /\ ret = None
    /\ trace = <<>>

\* replay_steps(steps, stop_on_error=...) on either executor
Init ==
    /\ InitCommon
    /\ use_last_session = FALSE
    /\ skip_rules = DEFAULT_SKIP_RULES
    /\ pc = "replay"
    /\ arg = None
    /\ raw_index = 0
    /\ file = NoFile
    /\ prepare = FALSE
    /\ variant \in {"full", "simple"}
    /\ stop_on_error \in BOOLEAN
    /\ steps \in {StepsOf(raws) : raws \in SeqsUpTo(ReplayRaws, MaxSteps)}

Next == ExecuteStep \/ ReturnFailures \/ ElementGoesStale

Spec == Init /\ [][Next]_vars

(***************************************************************************)
(* replay_file(log_path, prepare_plugin_home=..., stop_on_error=...) on    *)
(* either executor: the log is read, then the plugin home is prepared,     *)
(* then the steps are replayed.                                            *)
(***************************************************************************)
Object(raw) == [kind |-> "object", raw |-> raw]

FileRaws ==
    { \* a routed navigation click
      With(Chars(E_click, A_activate), "testId",
           Str(<<"main","-","sql","-","mode">>)),
      \* a click with no locator: the step fails
      Chars(<<" ","C","l","i","c","k">>, A_activate),
      \* a record whose event is a number
      [event |-> Num(5), action |-> Str(A_activate)] }

FileLines ==
    {[kind |-> "empty"], [kind |-> "spaces"], [kind |-> "badjson"],
     [kind |-> "scalar"]} \cup {Object(raw) : raw \in FileRaws}

InitFile ==
    /\ InitCommon
    /\ use_last_session = FALSE
    /\ skip_rules = DEFAULT_SKIP_RULES
    /\ pc = "open"
    /\ arg = None
    /\ raw_index = 0
    /\ file \in {NoFile} \cup {LogFile(l) : l \in SeqsUpTo(FileLines, MaxLines)}
    /\ prepare \in BOOLEAN
    /\ variant \in {"full", "simple"}
    /\ stop_on_error \in BOOLEAN
    /\ steps = <<>>

NextFile ==
    \/ OpenLog
    \/ ReadNextLine
    \/ EndOfLog
    \/ PreparePluginHome
    \/ ExecuteStep
    \/ ReturnFailures

SpecFile == InitFile /\ [][NextFile]_vars

(***************************************************************************)
(* InteractionStep.from_raw and _locator_from_step applied to one record.  *)
(***************************************************************************)
Absent == [t |-> "absent"]

\* The values a key of the record may hold; Absent: the key is missing.
ParseValues ==
    [event : {Absent, None, Num(0), Num(5), Str(<<>>), Str(E_click),
              Str(<<" ","C","l","i","c","k","\t">>), Str(<<"K","E","Y","U","P">>)},
     action : {Absent, None, Num(5), Str(<<"A","c","t","i","v","a","t","e","\n">>)},
     testId : {Absent, None, Str(<<>>), Str(<<"row","-","o","'","neil">>)},
     selector : {Absent, Str(<<>>), Str(<<"#run">>)},
     id : {Absent, Str(<<>>), Str(<<"btnAddQuery">>)},
     value : {Absent, Str(<<"1">>)},
     extra : {Absent, Str(<<"kept">>)}]

\* the JSON object: only the keys that are not Absent
RawOf(f) == [k \in {k \in DOMAIN f : f[k] # Absent} |-> f[k]]

ParseRaws == {RawOf(f) : f \in ParseValues}

InitParse ==
    /\ InitCommon
    /\ use_last_session = FALSE
    /\ skip_rules = DEFAULT_SKIP_RULES
    /\ pc = "from_raw"
    /\ file = NoFile
    /\ prepare = FALSE
    /\ variant = "full"
    /\ stop_on_error = TRUE
    /\ steps = <<>>
    /\ raw_index \in 1..MaxLines
    /\ arg \in ParseRaws

\* InteractionStep.from_raw(raw, index)
CallFromRaw ==
    /\ pc = "from_raw"
    /\ ret' = from_raw(arg, raw_index)
    /\ pc' = IF ret'.ok THEN "locator" ELSE "from_raw_raised"
    /\ UNCHANGED <<file, lineno, steps, stop_on_error, prepare, pos, failures,
                   executed, calls, active_card, page_card, alive, outcome,
                   variant, arg, raw_index, trace,
                   use_last_session, skip_rules>>

\* _locator_from_step(step) on the step just built
CallLocator ==
    /\ pc = "locator"
    /\ arg' = ret.val
    /\ ret' = _locator_from_step(ret.val)
    /\ pc' = "located"
    /\ UNCHANGED <<file, lineno, steps, stop_on_error, prepare, pos, failures,
                   executed, calls, active_card, page_card, alive, outcome,
                   variant, raw_index, trace,
                   use_last_session, skip_rules>>

NextParse == CallFromRaw \/ CallLocator

SpecParse == InitParse /\ [][NextParse]_vars


(***************************************************************************)
(* The tracked card.  The executor remembers a card (_active_card) and     *)
(* reads the one its page object tracks (sql_manager_page.card, an         *)
(* attribute the page owns).  SpecCard applies the operations that read    *)
(* or change the two, in any order, to an executor whose page object may   *)
(* replace its own card and whose cards may go stale; trace keeps the      *)
(* last operation and the one before it, as long as neither the page nor   *)
(* a card changed on its own in between.                                   *)
(***************************************************************************)
Ctx(m) == [active |-> m.active, page |-> m.page]

\* the executor before an operation, with an empty log of collaborator calls
M0 == [active |-> active_card, page |-> page_card, calls |-> <<>>]

CardRaws ==
    { \* nothing to find the card by
      Chars(E_click, A_preview),
      \* a connection name to look the card up by
      With(Chars(E_click, A_preview), "connectionName", Str(<<"o","r","a">>)),
      \* an element to climb from, and a query name
      With(With(Chars(E_click, A_preview), "selector", Str(<<"#run">>)),
           "queryName", Str(<<"q","1">>)) }

CardSteps == {from_raw(raw, 1).val : raw \in CardRaws}

Applied(op, step, required, r) ==
    [op |-> op, step |-> step, required |-> required, before |-> Ctx(M0),
     after |-> Ctx(r.m), err |-> r.err, val |-> r.val, ops |-> r.m.calls]

\* the operation before, if any, and this one
Latest(t, e) == IF t = <<>> THEN <<e>> ELSE <<t[Len(t)], e>>

Apply(op, step, required, results) ==
    /\ pc = "card"
    /\ \E r \in results :
          /\ active_card' = r.m.active
          /\ page_card' = r.m.page
          /\ calls' = r.m.calls
          /\ trace' = Latest(trace, Applied(op, step, required, r))
    /\ UNCHANGED <<pc, file, lineno, steps, stop_on_error, prepare, pos,
                   failures, executed, alive, outcome, variant, arg, raw_index,
                   ret,
                   use_last_session, skip_rules>>

CardResolve ==
    \E step \in CardSteps, required \in BOOLEAN :
        Apply("_resolve_card", step, required, _resolve_card(step, required, M0))

CardSetActive ==
    \E c \in alive :
        Apply("_set_active_card", None, FALSE,
              {Res(_set_active_card(M0, Card(c)), None)})

CardSync ==
    Apply("_sync_active_card_from_page", None, FALSE,
          {Res(_sync_active_card_from_page(M0), None)})

CardDelete ==
    \E step \in CardSteps :
        Apply("_handle_click_delete", step, TRUE, _handle_click_delete(step, M0))

\* sql_manager_page.card is the page's own: it may come to track another card
PageTracksCard ==
    /\ pc = "card"
    /\ \E c \in {None} \cup {Card(x) : x \in alive} :
          /\ c # page_card
          /\ page_card' = c
    /\ trace' = <<>>
    /\ UNCHANGED <<pc, file, lineno, steps, stop_on_error, prepare, pos,
                   failures, executed, calls, active_card, alive, outcome,
                   variant, arg, raw_index, ret,
                   use_last_session, skip_rules>>

\* the application re-renders: a card reference goes stale, for good
CardGoesStale ==
    /\ pc = "card"
    /\ \E c \in alive : alive' = alive \ {c}
    /\ trace' = <<>>
    /\ UNCHANGED <<pc, file, lineno, steps, stop_on_error, prepare, pos,
                   failures, executed, calls, active_card, page_card, outcome,
                   variant, arg, raw_index, ret,
                   use_last_session, skip_rules>>

InitCard ==
    /\ InitCommon
    /\ use_last_session = FALSE
    /\ skip_rules = DEFAULT_SKIP_RULES
    /\ pc = "card"
    /\ arg = None
    /\ raw_index = 0
    /\ file = NoFile
    /\ prepare = FALSE
    /\ variant = "full"
    /\ stop_on_error = TRUE
    /\ steps = <<>>

NextCard ==
    \/ CardResolve
    \/ CardSetActive
    \/ CardSync
    \/ CardDelete
    \/ PageTracksCard
    \/ CardGoesStale

SpecCard == InitCard /\ [][NextCard]_vars

(***************************************************************************)
(* One step on either executor.  SpecStep brings the executor to any       *)
(* context (a card set active, the page tracking a card of its own, cards  *)
(* gone stale) and then runs execute_step once on a recorded step; trace   *)
(* holds that one execution.                                               *)
(***************************************************************************)
Click(action) == Chars(E_click, action)
T_toolbar_run == <<"toolbar","-","run">>
Named(raw) == With(raw, "queryName", Str(<<"q","1">>))
Selected(raw) == With(raw, "selector", Str(<<"#run">>))

\* clicks on an option of the export destination list
ExportOption(suffix) ==
    With(Click(A_activate), "testId", Str(P_export_destination_option \o suffix))

ExportOptionRaws ==
    { \* a text, against a suffix and a value that say otherwise
      With(With(ExportOption(<<"2","-","document">>), "text",
                Str(<<" ","T","o"," ","f","i","l","e"," ">>)),
           "value", Str(<<"c","u","r","r","e","n","t">>)),
      \* a suffix, against a value that says otherwise
      With(ExportOption(<<"1","-","file">>), "value",
           Str(<<"c","u","r","r","e","n","t">>)),
      With(With(ExportOption(<<"2","-","document">>), "text", Str(<<" ">>)),
           "value", Str(<<"N","e","w">>)),
      \* no suffix: the value's keywords
      With(ExportOption(<<"1">>), "value", Str(<<"a","N","E","W","b">>)),
      With(ExportOption(<<"2">>), "value", Str(<<"t","e","k","u","s","c","h">>)),
      \* nothing to infer from
      With(ExportOption(<<"3">>), "value", Str(<<"x">>)),
      ExportOption(<<"3">>) }

E_scroll == <<"s","c","r","o","l","l">>

\* keyboard events that carry what other steps act on
KeyboardRaws ==
    { Selected(With(Chars(E_keyup, A_activate), "testId",
                    Str(<<"main","-","sql","-","mode">>))),
      Selected(With(Chars(E_keypress, A_set_value), "value", Str(<<"x">>))),
      Named(Chars(E_keydown, A_delete)) }

\* events outside the handler map
UnmappedRaws ==
    { Chars(E_scroll, <<>>),
      Selected(Chars(E_scroll, A_activate)),
      Selected(Chars(E_input, <<>>)),
      Selected(Chars(E_change, A_activate)),
      Selected(Chars(E_codemirror_change, <<>>)),
      \* the same with a value: the generic fallbacks
      Selected(With(Chars(E_input, <<>>), "value", Str(<<>>))),
      Selected(With(Chars(E_change, A_activate), "value", Str(<<"x">>))),
      Selected(With(Chars(E_codemirror_change, <<>>), "value", Str(<<"x">>))) }

\* editor changes: with nothing to find the editor by, with an element,
\* with a query name, with both
CodemirrorChange ==
    With(Chars(E_codemirror_change, A_set_value), "value",
         Str(<<"s","e","l","e","c","t"," ","1">>))

CodemirrorRaws ==
    { CodemirrorChange,
      Selected(CodemirrorChange),
      Named(CodemirrorChange),
      Named(Selected(CodemirrorChange)),
      Selected(Chars(E_codemirror_change, A_set_value)) }

\* clicks on testIds of the two derived-name families, outside the table
DerivedRaws ==
    { With(Click(A_activate), "testId", Str(P_main \o <<"unknown">>)),
      With(Click(A_activate), "testId", Str(P_sql_home_open \o <<"other">>)) }

\* clicks on a testId no table knows, located by what the step carries:
\* a DOM id only, a testId only, both
T_run == <<"r","u","n">>
LocatedRaws ==
    { With(Click(A_activate), "id", Str(T_run)),
      With(Click(<<>>), "id", Str(T_run)),
      With(Click(A_activate), "testId", Str(T_toolbar_run)),
      With(With(Click(A_activate), "testId", Str(T_toolbar_run)), "id", Str(T_run)),
      With(Selected(Click(A_activate)), "id", Str(T_run)) }

ConnectionItem == With(Click(A_activate), "testId", Str(P_cm_tree_connection \o <<"1">>))

ConnectionRaws ==
    { \* a connection name, padded
      With(ConnectionItem, "connectionName", Str(<<" ","o","r","a"," ">>)),
      \* a blank connection name, and the item's title as displayed
      With(With(ConnectionItem, "connectionName", Str(<<" ">>)), "text",
           Str(<<ZeroWidthSpace, Glyphs[1], " ", "o", ZeroWidthSpace, "r", "a", " ">>)),
      With(ConnectionItem, "text", Str(<<Glyphs[2], Glyphs[2], "o", "r", "a">>)),
      \* a title that is all markers, and no title at all
      With(ConnectionItem, "text", Str(<<" ", Glyphs[3], ZeroWidthSpace>>)),
      ConnectionItem }

\* clicks on a code-editor target: alone, with an element to climb from,
\* with a query name
EditorTarget(prefix) == With(Click(A_activate), "testId", Str(prefix \o <<"1">>))

EditorTargetRaws ==
    { EditorTarget(P_sql_codemirror),
      Selected(EditorTarget(P_sql_codemirror)),
      Named(EditorTarget(P_sql_codemirror)),
      EditorTarget(P_query_editor),
      Named(Selected(EditorTarget(P_query_editor))) }

\* steps on testIds of the simple executor's prefix table that no
\* recognizer of the full executor knows, and an editor change on one
PrefixRaws ==
    { With(Click(A_activate), "testId", Str(click_routes_prefix[2] \o <<"1">>)),
      With(Click(A_activate), "testId", Str(click_routes_prefix[3] \o <<"1">>)),
      With(CodemirrorChange, "testId", Str(P_query_editor \o <<"1">>)),
      With(Chars(E_keydown, <<>>), "testId", Str(P_query_delete \o <<"1">>)) }

\* steps on a testId of the exact route table that are not click/activate
T_main_about == <<"main","-","about">>
RoutedOtherRaws ==
    { With(Click(<<>>), "testId", Str(T_main_about)),
      With(Click(A_set_value), "testId", Str(P_sql_home_open \o <<"log">>)),
      Selected(With(Click(<<"h","o","v","e","r">>), "testId", Str(T_main_about))),
      Named(With(Click(A_preview), "testId", Str(T_main_about))),
      With(With(Chars(E_input, A_set_value), "testId", Str(T_main_about)),
           "value", Str(<<"x">>)),
      With(With(Chars(E_change, <<>>), "testId", Str(T_main_about)),
           "value", Str(<<"x">>)),
      With(Chars(E_scroll, A_activate), "testId", Str(T_main_about)) }

StepRaws ==
    \* a click on every testId of the exact route table
    {With(Click(A_activate), "testId", Str(r.test_id)) : r \in _exact_click_routes}
    \cup
    { \* a keyboard event on a routed testId
      With(Chars(E_keydown, <<>>), "testId", Str(<<"main","-","about">>)),
      \* clicks on a testId no route and no recognizer knows, with a selector
      Selected(With(Click(A_activate), "testId", Str(T_toolbar_run))),
      Selected(With(Click(<<>>), "testId", Str(T_toolbar_run))),
      \* clicks with a selector only
      Selected(Click(A_activate)),
      Selected(Click(<<>>)),
      \* clicks with nothing to locate the element by
      Click(A_activate),
      Click(<<>>),
      Click(A_preview),
      Click(A_export),
      Click(A_delete),
      \* card operations with an element to climb from and a query name
      Named(Selected(Click(A_preview))),
      Named(Selected(Click(A_export))),
      Named(Selected(Click(A_delete))),
      \* card operations with a query name only
      Named(Click(A_preview)),
      Named(Click(A_delete)),
      \* a click on the delete button of a card
      With(Click(A_activate), "testId", Str(P_query_delete \o <<"1">>)) }
    \cup ExportOptionRaws
    \cup KeyboardRaws
    \cup UnmappedRaws
    \cup CodemirrorRaws
    \cup DerivedRaws
    \cup LocatedRaws
    \cup ConnectionRaws
    \cup EditorTargetRaws
    \cup PrefixRaws
    \cup RoutedOtherRaws

StepSteps == {from_raw(raw, 1).val : raw \in StepRaws}

Stepped(v, step, r) ==
    [op |-> "execute_step", variant |-> v, step |-> step, before |-> Ctx(M0),
     after |-> Ctx(r.m), err |-> r.err, val |-> r.val, ops |-> r.m.calls]

StepExecute ==
    /\ pc = "card"
    /\ \E v \in {"full", "simple"}, step \in StepSteps :
          \E r \in Execute(v, step, M0) :
              /\ variant' = v
              /\ active_card' = r.m.active
              /\ page_card' = r.m.page
              /\ calls' = r.m.calls
              /\ trace' = <<Stepped(v, step, r)>>
    /\ pc' = "stepped"
    /\ UNCHANGED <<file, lineno, steps, stop_on_error, prepare, pos, failures,
                   executed, alive, outcome, arg, raw_index, ret,
                   use_last_session, skip_rules>>

\* _remember_active_card on its own, as the click handlers call it
StepRemember ==
    /\ pc = "card"
    /\ \E step \in StepSteps :
          \E r \in _remember_active_card(step, M0) :
              /\ active_card' = r.m.active
              /\ page_card' = r.m.page
              /\ calls' = r.m.calls
              /\ trace' = << [Stepped("full", step, r) EXCEPT
                                 !.op = "_remember_active_card"] >>
    /\ pc' = "stepped"
    /\ UNCHANGED <<file, lineno, steps, stop_on_error, prepare, pos, failures,
                   executed, alive, outcome, variant, arg, raw_index, ret,
                   use_last_session, skip_rules>>

NextStep ==
    \/ CardSetActive
    \/ PageTracksCard
    \/ CardGoesStale
    \/ StepExecute
    \/ StepRemember

SpecStep == InitCard /\ [][NextStep]_vars

(***************************************************************************)
(* Steps in sequence on the full executor.  SpecSeq runs execute_step on   *)
(* recorded steps one after the other, whether or not a step raised (as    *)
(* replay_steps does with stop_on_error = False), while the page may       *)
(* replace its card and cards may go stale; trace keeps the last step and  *)
(* the one before it.                                                      *)
(***************************************************************************)
SeqRaws ==
    ConnectionRaws
    \cup { CodemirrorChange,
           Selected(CodemirrorChange),
           Named(CodemirrorChange),
           Named(Click(A_delete)),
           Click(A_preview),
           Selected(Click(A_activate)),
           With(Click(A_activate), "testId", Str(<<"main","-","sql","-","mode">>)) }

SeqSteps == {from_raw(raw, 1).val : raw \in SeqRaws}

SeqExecute ==
    /\ pc = "card"
    /\ \E step \in SeqSteps :
          \E r \in execute_step(step, M0) :
              /\ active_card' = r.m.active
              /\ page_card' = r.m.page
              /\ calls' = r.m.calls
              /\ trace' = Latest(trace, Stepped("full", step, r))
    /\ UNCHANGED <<pc, file, lineno, steps, stop_on_error, prepare, pos,
                   failures, executed, alive, outcome, variant, arg, raw_index,
                   ret,
                   use_last_session, skip_rules>>

NextSeq ==
    \/ SeqExecute
    \/ PageTracksCard
    \/ CardGoesStale

SpecSeq == InitCard /\ [][NextSeq]_vars

(***************************************************************************)
(* main(argv), and replay_file with its session flag.  SpecMain starts     *)
(* either one on a log whose seq values go down as well as up; arg holds   *)
(* the entry point and the command line's flags.                           *)
(***************************************************************************)
\* InteractionLogExecutor.close: driver.quit(), any exception swallowed
close_Propagating(m) == Op(m, "driver.quit", None)

close(m) == Catch(Op(m, "driver.quit", None), LAMBDA r : {Res(r.m, None)})

\* read_interaction_log(path) as main calls it, start to end
RECURSIVE ReadFrom(_, _, _)
ReadFrom(lines, line_number, read) ==
    IF line_number > Len(lines) THEN Ok(read)
    ELSE LET got == ReadLine(lines[line_number], line_number, read)
         IN  IF got.ok THEN ReadFrom(lines, line_number + 1, got.val) ELSE got

read_interaction_log(f) ==
    IF f.exists THEN ReadFrom(f.lines, 1, <<>>)
    ELSE Raised([type |-> "FileNotFoundError"])

\* main's `return 0` / `return 2`
ExitCode(replayed) == IF replayed.kind = "returned" THEN Num(0) ELSE Num(2)

Argv(entry, continue_on_error, all_sessions, dry_parse, no_prepare) ==
    [entry |-> entry, continue_on_error |-> continue_on_error,
     all_sessions |-> all_sessions, dry_parse |-> dry_parse,
     no_prepare |-> no_prepare]

Constructed(m) ==
    [m EXCEPT !.calls = Append(@, [op |-> "InteractionLogExecutor",
                                   arg |-> None, ans |-> Done])]

\* main, up to the call of replay_file
MainStart ==
    /\ pc = "main"
    /\ LET got == read_interaction_log(file)
       IN  IF ~file.exists
           THEN \* parser.error(...)
                /\ outcome' = Raising([type |-> "SystemExit", code |-> 2])
                /\ pc' = "exited"
                /\ UNCHANGED <<calls, ret, prepare, stop_on_error>>
           ELSE IF ~got.ok
           THEN /\ outcome' = Raising(got.err)
                /\ pc' = "exited"
                /\ UNCHANGED <<calls, ret, prepare, stop_on_error>>
           ELSE IF arg.dry_parse
           THEN /\ ret' = Num(0)
                /\ pc' = "exited"
                /\ UNCHANGED <<calls, outcome, prepare, stop_on_error>>
           ELSE \/ \* the executor cannot be constructed
                   /\ outcome' = Raising(CollabError)
                   /\ pc' = "exited"
                   /\ UNCHANGED <<calls, ret, prepare, stop_on_error>>
                \/ /\ calls' = Constructed(M).calls
                   /\ prepare' = ~arg.no_prepare
                   \* replay_file(..., use_last_session=False, stop_on_error=True)
                   /\ stop_on_error' = TRUE
                   /\ pc' = "open"
                   /\ UNCHANGED <<outcome, ret>>
    /\ use_last_session' = FALSE
    /\ UNCHANGED <<file, lineno, steps, pos, failures, executed, active_card,
                   page_card, alive, variant, arg, raw_index, trace, skip_rules>>

\* main: except Exception / finally executor.close() / return
MainFinish ==
    /\ pc = "done"
    /\ arg.entry = "main"
    /\ \E r \in close(M) :
          /\ calls' = r.m.calls
          /\ IF r.err = NoErr
             THEN ret' = ExitCode(outcome) /\ outcome' = outcome
             ELSE ret' = ret /\ outcome' = Raising(r.err)
    /\ pc' = "exited"
    /\ UNCHANGED <<file, lineno, steps, stop_on_error, prepare, pos, failures,
                   executed, active_card, page_card, alive, variant, arg,
                   raw_index, trace, use_last_session, skip_rules>>

Routed(seq) ==
    Object(With(With(Click(A_activate), "testId",
                     Str(<<"main","-","sql","-","mode">>)), "seq", Num(seq)))

\* a click with nothing to locate: the step fails
Unlocatable(seq) == Object(With(Click(A_activate), "seq", Num(seq)))

MainFiles ==
    { NoFile,
      LogFile(<<>>),
      LogFile(<<Routed(1), [kind |-> "empty"], Routed(2)>>),
      \* a second session: seq starts again
      LogFile(<<Routed(2), Unlocatable(1), Routed(1)>>),
      LogFile(<<Unlocatable(3), Routed(2)>>),
      LogFile(<<Routed(1), [kind |-> "badjson"]>>) }

InitMain ==
    /\ InitCommon
    /\ raw_index = 0
    /\ steps = <<>>
    /\ variant = "full"
    /\ file \in MainFiles
    /\ \/ /\ arg \in {Argv("main", c, a, d, n) : c, a, d, n \in BOOLEAN}
          /\ pc = "main"
          /\ prepare = FALSE
          /\ stop_on_error = FALSE
          /\ use_last_session = FALSE
          /\ skip_rules = DEFAULT_SKIP_RULES
       \/ /\ arg = Argv("replay_file", FALSE, FALSE, FALSE, FALSE)
          /\ pc = "open"
          /\ prepare \in BOOLEAN
          /\ stop_on_error \in BOOLEAN
          /\ use_last_session \in BOOLEAN
          /\ skip_rules = DEFAULT_SKIP_RULES

NextMain ==
    \/ MainStart
    \/ OpenLog
    \/ ReadNextLine
    \/ EndOfLog
    \/ PreparePluginHome
    \/ ExecuteStep
    \/ ReturnFailures
    \/ MainFinish

SpecMain == InitMain /\ [][NextMain]_vars

(***************************************************************************)
(* split_sessions_by_seq, and the steps replay_file hands to replay_steps. *)
(* SpecSplit gives a list of steps, with sequence numbers or none, to the  *)
(* utility and then to replay_file's choice of steps, with either value of *)
(* use_last_session; trace holds what each returned.                       *)
(***************************************************************************)
\* `current and step.seq is not None and last_seq is not None
\*  and step.seq < last_seq`
StartsSession_OrEqual(step, current, last_seq) ==
    /\ current # <<>>
    /\ step.seq # None
    /\ last_seq # None
    /\ step.seq.n <= last_seq.n

StartsSession(step, current, last_seq) ==
    /\ current # <<>>
    /\ step.seq # None
    /\ last_seq # None
    /\ step.seq.n < last_seq.n

\* the loop of split_sessions_by_seq and its closing `if current:`
RECURSIVE SplitFrom(_, _, _, _)
SplitFrom(rest, sessions, current, last_seq) ==
    IF rest = <<>>
    THEN IF current # <<>> THEN Append(sessions, current) ELSE sessions
    ELSE LET step == Head(rest)
             reset == StartsSession(step, current, last_seq)
         IN  SplitFrom(Tail(rest),
                       IF reset THEN Append(sessions, current) ELSE sessions,
                       Append(IF reset THEN <<>> ELSE current, step),
                       IF step.seq # None THEN step.seq ELSE last_seq)

split_sessions_by_seq(read) == SplitFrom(read, <<>>, <<>>, None)

\* steps as read_interaction_log numbers them, with the given seq values
SplitSteps(seqs) ==
    [i \in 1..Len(seqs) |->
        from_raw(With(Click(A_activate), "seq", seqs[i]), i).val]

SplitInputs ==
    {SplitSteps(seqs) :
        seqs \in SeqsUpTo({None} \cup {Num(n) : n \in 1..MaxSeq}, MaxSplit)}

InitSplit ==
    /\ InitCommon
    /\ use_last_session \in BOOLEAN
    /\ skip_rules = DEFAULT_SKIP_RULES
    /\ pc = "split"
    /\ arg = None
    /\ raw_index = 0
    /\ file = NoFile
    /\ prepare = FALSE
    /\ variant = "full"
    /\ stop_on_error = TRUE
    /\ steps \in SplitInputs

SplitCall ==
    /\ pc = "split"
    /\ trace' = <<[op |-> "split_sessions_by_seq",
                   val |-> split_sessions_by_seq(steps)]>>
    /\ pc' = "choose"
    /\ UNCHANGED <<file, lineno, steps, stop_on_error, prepare, pos, failures,
                   executed, calls, active_card, page_card, alive, outcome,
                   variant, arg, raw_index, ret, use_last_session, skip_rules>>

\* replay_file between read_interaction_log and replay_steps
SplitChoose ==
    /\ pc = "choose"
    /\ trace' = Append(trace, [op |-> "replay_file",
                               val |-> StepsToReplay(steps, use_last_session)])
    /\ pc' = "chosen"
    /\ UNCHANGED <<file, lineno, steps, stop_on_error, prepare, pos, failures,
                   executed, calls, active_card, page_card, alive, outcome,
                   variant, arg, raw_index, ret, use_last_session, skip_rules>>

NextSplit ==
    \/ SplitCall
    \/ SplitChoose

SpecSplit == InitSplit /\ [][NextSplit]_vars

(***************************************************************************)
(* Recognizers and route tables.  SpecRecognize runs execute_step of the   *)
(* full executor once on a click/activate step whose testId is put         *)
(* together from the prefixes and keys the recognizers and route tables    *)
(* look for.                                                               *)
(***************************************************************************)
RecognizerPrefixes ==
    {P_cm_tree_connection, P_query_delete, P_export_destination_option,
     P_sql_codemirror, P_query_editor}

\* a prefix without its closing delimiter
Unclosed(p) == SubSeq(p, 1, Len(p) - 1)

\* the keys of the exact route table that begin as the recognizers'
\* prefixes do, and one of each derived-name family
RouteKeySamples ==
    {r.test_id : r \in {x \in _exact_click_routes :
                            IsPrefix(<<"sql","-","manager","-">>, x.test_id)}}
    \cup {<<"main","-","about">>, P_sql_home_open \o <<"log">>}

TestIdParts ==
    RecognizerPrefixes
    \cup {P_main, P_sql_home_open}
    \cup RouteKeySamples
    \cup {Unclosed(p) : p \in RecognizerPrefixes}
    \cup {<<"1">>, <<>>}

TestIdSamples == {a \o b : a, b \in TestIdParts} \ {<<>>}

RecognizeSteps ==
    {from_raw(Selected(With(Click(A_activate), "testId", Str(tid))), 1).val :
        tid \in TestIdSamples}

\* replay_steps taking the next step of its list
RecognizeChoose ==
    /\ pc = "card"
    /\ \E step \in RecognizeSteps : steps' = <<step>>
    /\ pc' = "chosen"
    /\ UNCHANGED <<file, lineno, stop_on_error, prepare, pos, failures,
                   executed, calls, active_card, page_card, alive, outcome,
                   variant, arg, raw_index, trace, ret, use_last_session,
                   skip_rules>>

RecognizeExecute ==
    /\ pc = "chosen"
    /\ \E r \in execute_step(steps[1], M0) :
          /\ active_card' = r.m.active
          /\ page_card' = r.m.page
          /\ calls' = r.m.calls
          /\ trace' = <<Stepped("full", steps[1], r)>>
    /\ pc' = "stepped"
    /\ UNCHANGED <<file, lineno, steps, stop_on_error, prepare, pos, failures,
                   executed, alive, outcome, variant, arg, raw_index, ret,
                   use_last_session, skip_rules>>

NextRecognize ==
    \/ RecognizeChoose
    \/ RecognizeExecute

SpecRecognize == InitCard /\ [][NextRecognize]_vars

(***************************************************************************)
(* Skip rules of the simple executor.  SpecSkip replaces the executor's    *)
(* rules (set_skip_rules), adds rules to them (add_skip_rule) and then     *)
(* runs execute_step once on a recorded step; trace holds that execution.  *)
(***************************************************************************)
StartsWith == <<"__startswith">>

SkipRuleSamples ==
    { \* one prefix condition
      <<RuleItem(<<"testId">> \o StartsWith, Str(P_main))>>,
      \* an equality and a prefix condition
      <<RuleItem(<<"event">>, Str(E_click)),
        RuleItem(<<"testId">> \o StartsWith,
                 Str(<<"sql","-","manager","-","query","-">>))>>,
      \* one equality condition
      <<RuleItem(<<"event">>, Str(E_keydown))>>,
      \* a key of the raw record, and a prefix every text starts with
      <<RuleItem(<<"queryName">>, Str(<<"q","1">>)),
        RuleItem(<<"text">> \o StartsWith, Str(<<>>))>> }

\* set_skip_rules(rules): `self.skip_rules = [dict(rule) for rule in rules]`
SetSkipRules ==
    /\ pc = "card"
    /\ \E rules \in {<<>>, << <<>> >>, DEFAULT_SKIP_RULES} : skip_rules' = rules
    /\ UNCHANGED <<pc, file, lineno, steps, stop_on_error, prepare, pos,
                   failures, executed, calls, active_card, page_card, alive,
                   outcome, variant, arg, raw_index, trace, ret,
                   use_last_session>>

\* add_skip_rule(**rule): `if rule: self.skip_rules.append(rule)`
AddSkipRule ==
    /\ pc = "card"
    /\ Len(skip_rules) < MaxRules
    /\ \E rule \in SkipRuleSamples \cup {<<>>} :
          skip_rules' = IF rule # <<>> THEN Append(skip_rules, rule) ELSE skip_rules
    /\ UNCHANGED <<pc, file, lineno, steps, stop_on_error, prepare, pos,
                   failures, executed, calls, active_card, page_card, alive,
                   outcome, variant, arg, raw_index, trace, ret,
                   use_last_session>>

SkipRaws ==
    { \* exact routes, by click and by key
      With(Click(A_activate), "testId", Str(<<"main","-","about">>)),
      With(Chars(E_keydown, <<>>), "testId", Str(<<"main","-","about">>)),
      \* the query name field, as typed into and as clicked
      With(With(Chars(E_input, A_set_value), "testId", Str(T_add_query_name)),
           "value", Str(<<"q">>)),
      With(With(Click(A_activate), "testId", Str(T_add_query_name)),
           "value", Str(<<"q">>)),
      \* prefix routes
      With(Click(A_activate), "testId", Str(P_query_delete \o <<"1">>)),
      With(Chars(E_keydown, <<>>), "testId", Str(P_query_delete \o <<"1">>)),
      With(Click(A_activate), "testId", Str(P_cm_tree_connection \o <<"1">>)),
      \* the editor itself, and a target inside it
      Selected(With(Click(A_activate), "testId", Str(<<"sql","-","codemirror">>))),
      Selected(With(Click(A_activate), "testId", Str(P_sql_codemirror \o <<"1">>))),
      \* no testId: with a query name, with a text as well, with neither
      Named(Selected(Click(A_activate))),
      With(Named(Selected(Click(A_activate))), "text", Str(<<"x">>)),
      Selected(Click(<<>>)),
      Chars(E_scroll, <<>>) }

SkipSteps == {from_raw(raw, 1).val : raw \in SkipRaws}

SkipExecute ==
    /\ pc = "card"
    /\ \E step \in SkipSteps :
          \E r \in Simple_execute_step(step, M0) :
              /\ active_card' = r.m.active
              /\ page_card' = r.m.page
              /\ calls' = r.m.calls
              /\ trace' = <<Stepped("simple", step, r)>>
    /\ variant' = "simple"
    /\ pc' = "stepped"
    /\ UNCHANGED <<file, lineno, steps, stop_on_error, prepare, pos, failures,
                   executed, alive, outcome, arg, raw_index, ret,
                   use_last_session, skip_rules>>

NextSkip ==
    \/ SetSkipRules
    \/ AddSkipRule
    \/ PageTracksCard
    \/ SkipExecute

SpecSkip == InitCard /\ [][NextSkip]_vars

(***************************************************************************)
(* Properties of replay_steps (specification Spec).                        *)
(***************************************************************************)
RaisedAt == {i \in 1..Len(executed) : executed[i].err # NoErr}

InInputOrder == \A i \in 1..Len(executed) : executed[i].step = steps[i]

\* C1: with stop_on_error the steps run in the order of the input sequence,
\* and the first step that raises ends the run: it is the last step executed,
\* and a RuntimeError is raised that carries that step's line index, seq,
\* event, action and testId and has the step's own error as its cause.
C1_FailFastAbortsAtFirstFailure ==
    stop_on_error =>
        /\ Len(executed) = pos
        /\ InInputOrder
        /\ \A i \in RaisedAt :
              /\ i = Len(executed)
              /\ pc = "done"
              /\ outcome.kind = "raised"
              /\ outcome.error.type = "RuntimeError"
              /\ outcome.error.line = steps[i].index
              /\ outcome.error.seq = steps[i].seq
              /\ outcome.error.event = steps[i].event
              /\ outcome.error.action = steps[i].action
              /\ outcome.error.testId = steps[i].test_id
              /\ outcome.error.cause = executed[i].err
        /\ (pc = "done" /\ RaisedAt = {}) =>
              /\ outcome.kind = "returned"
              /\ Len(executed) = Len(steps)

\* A run aborted at its second step while a third step was still to come.
C1_Witness ==
    /\ stop_on_error
    /\ pc = "done"
    /\ outcome.kind = "raised"
    /\ Len(executed) = 2
    /\ Len(steps) = 3
    /\ executed[1].err = NoErr
    /\ executed[2].err # NoErr

\* C2: with stop_on_error off, InteractionLogExecutor.replay_steps never
\* raises; the failure list has one entry per step whose execution raised
\* (none when every step succeeds) and is what the call returns.
C2_ContinueOnErrorCountsFailures ==
    (variant = "full" /\ ~stop_on_error) =>
        /\ outcome.kind # "raised"
        /\ Len(failures) = Cardinality(RaisedAt)
        /\ pc = "done" => outcome = Returned(failures)

\* A finished run in which two of three steps raised.
C2_Witness ==
    /\ variant = "full"
    /\ ~stop_on_error
    /\ pc = "done"
    /\ outcome.kind = "returned"
    /\ Len(steps) = 3
    /\ Cardinality(RaisedAt) = 2
    /\ Len(outcome.val) = 2

\* the failing executions, in the order they happened, as ReplayFailure records
FailingExecutions ==
    LET failing == SelectSeq(executed, LAMBDA e : e.err # NoErr)
    IN  [i \in 1..Len(failing) |->
            [step |-> failing[i].step, error |-> failing[i].err]]

\* C3: in continue-on-error mode every input step is executed exactly once,
\* in input order, however many earlier steps failed; the returned records
\* pair each failing step with its error, in the order of the failing steps.
C3_ContinueOnErrorRunsEveryStep ==
    (variant = "full" /\ ~stop_on_error /\ pc = "done") =>
        /\ Len(executed) = Len(steps)
        /\ InInputOrder
        /\ outcome.kind = "returned"
        /\ outcome.val = FailingExecutions

\* The first and the last of three steps raised, the middle one succeeded.
C3_Witness ==
    /\ variant = "full"
    /\ ~stop_on_error
    /\ pc = "done"
    /\ Len(steps) = 3
    /\ RaisedAt = {1, 3}
    /\ Len(outcome.val) = 2
    /\ outcome.val[1].step = steps[1]
    /\ outcome.val[2].step = steps[3]

(***************************************************************************)
(* Properties of read_interaction_log and replay_file (SpecFile).          *)
(***************************************************************************)
\* line numbers of the lines that are neither empty nor whitespace-only
NonBlankLineNumbers ==
    IF file.exists
    THEN SelectSeq([n \in 1..Len(file.lines) |-> n],
                   LAMBDA n : file.lines[n].kind \notin {"empty", "spaces"})
    ELSE <<>>

\* line numbers of the lines that are not valid JSON or not a JSON object
MalformedLineNumbers ==
    IF file.exists
    THEN {n \in 1..Len(file.lines) : file.lines[n].kind \in {"badjson", "scalar"}}
    ELSE {}

\* read_interaction_log has returned its list
ReadReturned == pc = "prepare"

\* C4: read_interaction_log returns exactly one step per non-blank line, in
\* file line order; empty and whitespace-only lines produce no step.
C4_OneStepPerNonBlankLine ==
    ReadReturned =>
        /\ Len(steps) = Len(NonBlankLineNumbers)
        /\ \A i \in 1..Len(steps) :
              steps[i].raw = file.lines[NonBlankLineNumbers[i]].raw

\* Two different records around a whitespace-only line.
C4_Witness ==
    /\ ReadReturned
    /\ Len(file.lines) = 3
    /\ file.lines[2].kind = "spaces"
    /\ Len(steps) = 2
    /\ steps[1].raw # steps[2].raw

\* C5 (as stated): the index of each returned step is its 1-based position
\* among the non-blank lines, so the indices are 1..n with no gaps.
C5_IndexIsPositionAmongNonBlank ==
    ReadReturned => \A i \in 1..Len(steps) : steps[i].index = i

\* C5 (amended): the index of each returned step is the 1-based line number
\* of its line in the file, blank lines counted; the indices increase
\* strictly and skip the numbers of the blank lines.
C5_IndexIsFileLineNumber ==
    ReadReturned =>
        /\ Len(steps) = Len(NonBlankLineNumbers)
        /\ \A i \in 1..Len(steps) : steps[i].index = NonBlankLineNumbers[i]
        /\ \A i, j \in 1..Len(steps) : i < j => steps[i].index < steps[j].index

\* A record on line 2 behind an empty line 1, and one on line 3.
C5_Witness ==
    /\ ReadReturned
    /\ Len(file.lines) = 3
    /\ file.lines[1].kind = "empty"
    /\ Len(steps) = 2
    /\ steps[1].index = 2
    /\ steps[2].index = 3

Least(S) == CHOOSE n \in S : \A k \in S : n <= k

\* C6: read_interaction_log fails at the first non-blank line that is not
\* valid JSON or not a JSON object, with an error naming that line number,
\* and returns no list; a missing path fails with a not-found error before
\* any line is read.
C6_FailsAtFirstMalformedLine ==
    /\ ~file.exists =>
          /\ lineno = 0
          /\ steps = <<>>
          /\ pc = "done" => outcome = Raising([type |-> "FileNotFoundError"])
    /\ MalformedLineNumbers # {} =>
          /\ ~ReadReturned
          /\ lineno <= Least(MalformedLineNumbers)
          /\ pc = "done" =>
                /\ outcome.kind = "raised"
                /\ outcome.error.type = "ValueError"
                /\ outcome.error.line = Least(MalformedLineNumbers)

\* C7: in replay_file, when any line of the log is malformed, no step is
\* ever executed and prepare_plugin_home is never invoked.
C7_MalformedLogRunsNothing ==
    MalformedLineNumbers # {} => (executed = <<>> /\ calls = <<>> /\ pos = 0)

\* A log whose first line is a good record and whose second is not JSON,
\* replayed with prepare_plugin_home on, after the call has ended.
C7_Witness ==
    /\ file.exists
    /\ prepare
    /\ pc = "done"
    /\ Len(file.lines) >= 2
    /\ file.lines[1].kind = "object"
    /\ file.lines[2].kind = "badjson"
    /\ Len(steps) = 1
    /\ outcome.kind = "raised"

(***************************************************************************)
(* Properties of from_raw and _locator_from_step (SpecParse).              *)
(***************************************************************************)
HasNoUpperCase(s) ==
    \A i \in 1..Len(s) : \A k \in 1..Len(UpperChars) : s[i] # UpperChars[k]

HasNoOuterSpace(s) ==
    s = <<>> \/ (s[1] \notin Whitespace /\ s[Len(s)] \notin Whitespace)

Missing(raw, key) == key \notin DOMAIN raw

\* from_raw has built a step: arg is the record, ret.val the step
StepBuilt == pc = "locator"

\* C8: in every step built by from_raw, event and action are lower-cased
\* and carry no leading or trailing whitespace; a missing or null event or
\* action becomes the empty string; a missing optional field stays None.
C8_KindsNormalizedOthersStayNone ==
    StepBuilt =>
        LET step == ret.val IN
        /\ HasNoUpperCase(step.event) /\ HasNoOuterSpace(step.event)
        /\ HasNoUpperCase(step.action) /\ HasNoOuterSpace(step.action)
        /\ (Missing(arg, "event") \/ arg.event = None) => step.event = <<>>
        /\ (Missing(arg, "action") \/ arg.action = None) => step.action = <<>>
        /\ Missing(arg, "testId") => step.test_id = None
        /\ Missing(arg, "selector") => step.selector = None
        /\ Missing(arg, "id") => step.element_id = None
        /\ Missing(arg, "value") => step.value = None
        /\ step.seq = None /\ step.text = None /\ step.connection_name = None

\* " Click<tab>" became "click", a missing action became "", and the
\* missing testId and value stayed None.
C8_Witness ==
    /\ StepBuilt
    /\ ~Missing(arg, "event")
    /\ arg.event = Str(<<" ", "C", "l", "i", "c", "k", "\t">>)
    /\ ret.val.event = <<"c", "l", "i", "c", "k">>
    /\ Missing(arg, "action")
    /\ ret.val.action = <<>>
    /\ Missing(arg, "testId")
    /\ ret.val.test_id = None

\* C9: from_raw succeeds on every JSON object, whatever its fields hold,
\* and the record stays reachable through the step's raw mapping.
C9_FromRawTotalOnObjects ==
    /\ pc # "from_raw_raised"
    /\ StepBuilt => ret.val.raw = arg

\* _locator_from_step has answered: arg is the step, ret the result
Located == pc = "located"

Present(v) == v # None

NonEmpty(v) == v # None /\ v # Str(<<>>)

\* the selector is [data-testid='...'] around the testId with a backslash
\* put before every quote
IsEscapedTestIdSelector(sel, test_id) ==
    /\ Len(sel) >= 2
    /\ sel[1] = "[data-testid='"
    /\ sel[Len(sel)] = "']"
    /\ LET inner == SubSeq(sel, 2, Len(sel) - 1) IN
       /\ SelectSeq(inner, LAMBDA c : c # "\\") = test_id
       /\ \A i \in 1..Len(inner) :
             inner[i] = "'" => (i > 1 /\ inner[i - 1] = "\\")

LocatorPriority(Has(_)) ==
    IF Has(arg.selector)
    THEN ret = Ok(CssLocator(arg.selector))
    ELSE IF Has(arg.test_id)
    THEN /\ ret.ok
         /\ ret.val.t = "locator"
         /\ ret.val.by = "css selector"
         /\ IsEscapedTestIdSelector(ret.val.selector.s, arg.test_id.s)
    ELSE IF Has(arg.element_id)
    THEN ret = Ok(IdLocator(arg.element_id))
    ELSE ret = Ok(None)

\* C10 (as stated): strict priority among the fields that are present:
\* selector, else testId (escaped, attribute equality), else id, else absent.
C10_PriorityAmongPresent == Located => LocatorPriority(Present)

\* C10 (amended): strict priority among the fields that are present and
\* not the empty string; an empty selector, testId or id counts as absent.
C10_PriorityAmongNonEmpty == Located => LocatorPriority(NonEmpty)

\* An empty selector is passed over and the testId, with its quote escaped,
\* wins over the id that is also there.
C10_Witness ==
    /\ Located
    /\ arg.selector = Str(<<>>)
    /\ arg.test_id = Str(<<"row", "-", "o", "'", "neil">>)
    /\ arg.element_id = Str(<<"btnAddQuery">>)
    /\ ret.ok
    /\ ret.val = CssLocator(Str(<<"[data-testid='", "row", "-", "o", "\\", "'",
                                  "neil", "']">>))


(***************************************************************************)
(* Properties of the tracked card (SpecCard).                              *)
(***************************************************************************)
LastOp == trace[Len(trace)]

Resolved == trace # <<>> /\ LastOp.op = "_resolve_card"

IsAliveCard(c) == c # None /\ c.id \in alive

AnyCard == {Card(c) : c \in Cards}

\* positions of the calls of one collaborator lookup, and of those that
\* answered with a card
Asks(e, op) == {i \in 1..Len(e.ops) : e.ops[i].op = op}

GaveCard(e, op) == {i \in Asks(e, op) : e.ops[i].ans \in AnyCard}

FromElement(e) ==
    Asks(e, "find_element_in_frames") \cup Asks(e, "execute_script:closest")

NeitherAlive(e) == ~IsAliveCard(e.before.page) /\ ~IsAliveCard(e.before.active)

\* C11: _resolve_card returns the first source that succeeds, in the order
\* (a) the page's own card if alive, even over a different alive remembered
\* card; (b) the remembered card if alive; (c) the composite ancestor of the
\* element located from the step; (d) the composite found by name.
C11_ResolveOrder ==
    Resolved =>
        LET e == LastOp IN
        /\ IsAliveCard(e.before.page) =>
              (e.err = NoErr /\ e.val = e.before.page /\ e.ops = <<>>)
        /\ (~IsAliveCard(e.before.page) /\ IsAliveCard(e.before.active)) =>
              (e.err = NoErr /\ e.val = e.before.active /\ e.ops = <<>>)
        /\ FromElement(e) # {} => NeitherAlive(e)
        /\ \A i \in GaveCard(e, "execute_script:closest") :
              /\ e.err = NoErr
              /\ e.val = e.ops[i].ans
              /\ Asks(e, "expand_query_card") = {}
        /\ \A i \in Asks(e, "expand_query_card") :
              /\ NeitherAlive(e)
              /\ \A j \in FromElement(e) :
                    j < i /\ e.ops[j].ans \notin AnyCard /\ e.ops[j].ans # Threw
              /\ e.ops[i].ans \in AnyCard => (e.err = NoErr /\ e.val = e.ops[i].ans)

\* The page tracks card2 while the executor remembers card1, both alive:
\* the page's card is returned.
C11_Witness ==
    /\ Resolved
    /\ LastOp.before.page = Card("card2")
    /\ LastOp.before.active = Card("card1")
    /\ alive = Cards
    /\ LastOp.val = Card("card2")

\* no source gave a card, and the element lookups did not raise
AllSourcesFailed(e) ==
    /\ NeitherAlive(e)
    /\ \A i \in 1..Len(e.ops) : e.ops[i].ans \notin AnyCard
    /\ \A i \in FromElement(e) : e.ops[i].ans # Threw

\* C12: when all four sources fail, _resolve_card raises an error naming
\* the step's line if required, and returns None without raising if not;
\* an exception of the lookup by name counts as not found and never
\* propagates.
C12_AllSourcesFail ==
    Resolved =>
        LET e == LastOp IN
        /\ AllSourcesFailed(e) =>
              /\ e.after = e.before
              /\ IF e.required
                 THEN /\ e.err.type = "RuntimeError"
                      /\ e.err.line = e.step.index
                 ELSE e.err = NoErr /\ e.val = None
        /\ \A i \in Asks(e, "expand_query_card") :
              e.ops[i].ans = Threw =>
                  /\ e.err # CollabError
                  /\ AllSourcesFailed(e)

\* The lookup by name raised and the required resolution failed with the
\* executor's own error.
C12_Witness ==
    /\ Resolved
    /\ LastOp.required
    /\ \E i \in Asks(LastOp, "expand_query_card") : LastOp.ops[i].ans = Threw
    /\ LastOp.err.type = "RuntimeError"

\* the operation changed the tracked card, or resolved one
Mutated(e) ==
    \/ e.op = "_set_active_card"
    \/ e.op = "_handle_click_delete" /\ e.err = NoErr
    \/ e.op = "_sync_active_card_from_page" /\ e.after # e.before
    \/ e.op = "_resolve_card" /\ e.err = NoErr /\ e.val # None

\* C13: after set-active, the clear of a delete, an adoption from the page
\* or a successful resolution returns, the remembered card and the page's
\* card are the same element or both empty.
C13_TrackerAndPageAgree ==
    /\ \A i \in 1..Len(trace) :
          Mutated(trace[i]) => trace[i].after.active = trace[i].after.page
    /\ (trace # <<>> /\ Mutated(LastOp)) => active_card = page_card

\* The page came to track card2 while card1 was remembered; the sync
\* adopted card2.
C13_Witness ==
    /\ trace # <<>>
    /\ LastOp.op = "_sync_active_card_from_page"
    /\ LastOp.before = [active |-> Card("card1"), page |-> Card("card2")]
    /\ active_card = Card("card2")
    /\ page_card = Card("card2")

\* two _resolve_card calls in a row for the same step, the first returned
TwoResolves ==
    /\ Len(trace) = 2
    /\ trace[1].op = "_resolve_card"
    /\ trace[2].op = "_resolve_card"
    /\ trace[1].step = trace[2].step
    /\ trace[1].required = trace[2].required
    /\ trace[1].err = NoErr

SameResolution ==
    /\ trace[2].err = NoErr
    /\ trace[2].val = trace[1].val
    /\ trace[2].after = trace[1].after

\* every lookup both calls made was answered the same both times
SameAnswers ==
    \A i \in 1..Len(trace[1].ops), j \in 1..Len(trace[2].ops) :
        trace[1].ops[i].op = trace[2].ops[j].op =>
            trace[1].ops[i].ans = trace[2].ops[j].ans

\* C14 (as stated): two consecutive _resolve_card calls with no activating
\* or deleting action and no change of liveness in between return the same
\* composite (or both None), and the second leaves the tracked cards as the
\* first left them.
C14_ResolveTwiceSame == TwoResolves => SameResolution

\* C14 (amended): the same, when in addition the collaborator's lookups
\* answer the second call as they answered the first; once the first call
\* returned a card, the second returns it without any lookup.
C14_ResolveTwiceSameAnswers ==
    TwoResolves =>
        /\ SameAnswers => SameResolution
        /\ trace[1].val # None => (SameResolution /\ trace[2].ops = <<>>)

\* From empty the first call climbed to a card; the second returned it.
C14_Witness ==
    /\ TwoResolves
    /\ trace[1].before = [active |-> None, page |-> None]
    /\ GaveCard(trace[1], "execute_script:closest") # {}
    /\ trace[2].val = trace[1].val
    /\ trace[2].ops = <<>>

\* a successful delete, then a required resolution
DeleteThenResolve ==
    /\ Len(trace) = 2
    /\ trace[1].op = "_handle_click_delete"
    /\ trace[1].err = NoErr
    /\ trace[2].op = "_resolve_card"
    /\ trace[2].required

DeleteCleared ==
    /\ trace[1].after = [active |-> None, page |-> None]
    /\ trace[2].before = [active |-> None, page |-> None]

\* C18 (as stated): after a successful delete both cards are empty, and the
\* next required resolution fails unless the composite is resolved by name.
C18_AfterDeleteOnlyByName ==
    DeleteThenResolve =>
        /\ DeleteCleared
        /\ trace[2].err = NoErr => GaveCard(trace[2], "expand_query_card") # {}

\* C18 (amended): after a successful delete both cards are empty, and the
\* next required resolution never returns a remembered card: it fails
\* unless the step itself leads to a composite, as the ancestor of the
\* element its locator finds or by its query or connection name.
C18_AfterDeleteOnlyFromStep ==
    DeleteThenResolve =>
        /\ DeleteCleared
        /\ trace[2].err = NoErr =>
              \E i \in GaveCard(trace[2], "expand_query_card")
                       \cup GaveCard(trace[2], "execute_script:closest") :
                  trace[2].val = trace[2].ops[i].ans
        /\ (\A i \in 1..Len(trace[2].ops) : trace[2].ops[i].ans \notin AnyCard) =>
              trace[2].err # NoErr

\* A card was alive and deleted; the next required resolution, for a step
\* with nothing to find a card by, failed.
C18_Witness ==
    /\ DeleteThenResolve
    /\ IsAliveCard(trace[1].before.page)
    /\ trace[2].ops = <<>>
    /\ trace[2].err.type = "RuntimeError"

(***************************************************************************)
(* Properties of one executed step (SpecStep).                             *)
(***************************************************************************)
StepRan == pc = "stepped" /\ trace[1].op = "execute_step"

TheStep == trace[1]

\* the entry of the exact route table a step's testId names, if any
RouteOf(step) ==
    IF HasTestId(step) THEN ExactRoute(TestId(step)) ELSE {}

\* whether the executor takes the step to its route tables at all: the
\* full one on click/activate, the simple one on every step it does not skip
Dispatched(e) ==
    IF e.variant = "full"
    THEN e.step.event = E_click /\ e.step.action = A_activate
    ELSE ~_should_skip_step(e.step, DEFAULT_SKIP_RULES)

StartsWithKnownPrefix(step) ==
    IsPrefix(P_main, TestId(step)) \/ IsPrefix(P_sql_home_open, TestId(step))

\* C15: a dispatched step whose testId has an entry in the exact route
\* table invokes that entry's operation and only it, exactly once; no
\* prefix route and no derived-name operation is invoked, also when the
\* testId begins with a known prefix.
C15_ExactRouteFirst ==
    StepRan /\ Dispatched(TheStep) =>
        \A route \in RouteOf(TheStep.step) :
            /\ Len(TheStep.ops) = 1
            /\ TheStep.ops[1].op = "route"
            /\ TheStep.ops[1].arg = [page |-> route.page, method |-> route.method]

C15_Witness ==
    /\ StepRan
    /\ Dispatched(TheStep)
    /\ RouteOf(TheStep.step) # {}
    /\ StartsWithKnownPrefix(TheStep.step)
    /\ TheStep.variant = "full"
    /\ TheStep.ops = <<[op |-> "route",
                        arg |-> [page |-> "sql_mode_page", method |-> "click_log"],
                        ans |-> Done]>>

\* no route table entry, no derived-name prefix and no recognizer applies
NoRouteNoRecognizer(step) ==
    \/ ~HasTestId(step)
    \/ /\ RouteOf(step) = {}
       /\ ~StartsWithKnownPrefix(step)
       /\ ~_is_connection_item(step)
       /\ ~_is_query_delete_button(step)
       /\ ~_is_export_destination_option(step)
       /\ ~_is_codemirror_target(step)

\* a click of the full executor that none of its card handlers takes
PlainClick(e) ==
    /\ e.variant = "full"
    /\ e.step.event = E_click
    /\ e.step.action \notin {A_preview, A_export, A_delete}
    /\ NoRouteNoRecognizer(e.step)

RememberLookups == {"find_element_in_frames", "execute_script:closest"}

\* what _remember_active_card leaves behind when it runs after the click
Remembered(e) ==
    IF IsAliveCard(e.before.page)
    THEN Len(e.ops) = 1 /\ e.after = [active |-> e.before.page, page |-> e.before.page]
    ELSE IF e.before.active # None
    THEN Len(e.ops) = 1 /\ e.after = e.before
    ELSE /\ Asks(e, "find_element_in_frames") = {2}
         /\ \A i \in GaveCard(e, "execute_script:closest") :
               e.after = [active |-> e.ops[i].ans, page |-> e.ops[i].ans]

\* C16: a click step whose testId matches no route and no recognizer, with
\* a resolvable selector, performs exactly one generic click on the selector
\* and then attempts to remember the active card; the remember attempt
\* never precedes the click and does not happen if the click fails.
C16_ClickThenRemember ==
    StepRan /\ PlainClick(TheStep) /\ Truthy(TheStep.step.selector) =>
        /\ Asks(TheStep, "_click_locator") = {1}
        /\ TheStep.ops[1].arg = CssLocator(TheStep.step.selector)
        /\ \A i \in 2..Len(TheStep.ops) : TheStep.ops[i].op \in RememberLookups
        /\ TheStep.ops[1].ans = Threw =>
              /\ Len(TheStep.ops) = 1
              /\ TheStep.err # NoErr
              /\ TheStep.after = TheStep.before
        /\ TheStep.ops[1].ans = Done => Remembered(TheStep)

C16_Witness ==
    /\ StepRan
    /\ PlainClick(TheStep)
    /\ TheStep.step.test_id = Str(T_toolbar_run)
    /\ TheStep.step.selector = Str(<<"#run">>)
    /\ TheStep.before = [active |-> None, page |-> None]
    /\ Len(TheStep.ops) = 3
    /\ TheStep.ops[1].op = "_click_locator" /\ TheStep.ops[1].ans = Done
    /\ TheStep.ops[2].op = "find_element_in_frames" /\ TheStep.ops[2].ans = Elem
    /\ TheStep.ops[3].op = "execute_script:closest"
    /\ TheStep.ops[3].ans = Card("card1")
    /\ TheStep.after = [active |-> Card("card1"), page |-> Card("card1")]

NoLocator(step) ==
    ~Truthy(step.selector) /\ ~Truthy(step.test_id) /\ ~Truthy(step.element_id)

FailsUntouched(e) ==
    /\ e.err = NoSuchElement("click locator", e.step.index)
    /\ e.ops = <<>>
    /\ e.after = e.before

\* C17: a click step (mapped or unmapped action) with no selector, no
\* testId and no DOM id fails with a no-such-element error, invokes no
\* collaborator operation and leaves the tracked context unchanged.
C17_ClickWithoutLocatorFails ==
    StepRan /\ TheStep.step.event = E_click /\ NoLocator(TheStep.step) =>
        FailsUntouched(TheStep)

\* C17, amended: that holds for click/activate and for a click with an
\* unmapped action; a preview, export or delete click needs no locator: it
\* works on the resolved card, and fails with the context error when no
\* card can be resolved.
C17_PlainClickWithoutLocatorFails ==
    StepRan /\ TheStep.step.event = E_click /\ NoLocator(TheStep.step) =>
        IF PlainClick(TheStep) \/ TheStep.variant = "simple"
        THEN FailsUntouched(TheStep)
        ELSE /\ TheStep.err.type # "NoSuchElementException"
             /\ AllSourcesFailed(TheStep) =>
                   TheStep.err = RuntimeErr("Cannot resolve active query card",
                                            TheStep.step.index)

C17_Witness ==
    /\ StepRan
    /\ PlainClick(TheStep)
    /\ TheStep.step.action = A_activate
    /\ NoLocator(TheStep.step)
    /\ TheStep.before = [active |-> Card("card1"), page |-> None]
    /\ FailsUntouched(TheStep)

CardActions == {A_preview, A_export, A_delete}

\* the page operation a card action delegates to
CardOperation(action) ==
    CASE action = A_preview -> "click_query_preview"
      [] action = A_export -> "click_export"
      [] action = A_delete -> "click_query_delete"

\* the card action of a step: its own, or delete for a click on the delete
\* button of a card
CardActionOf(step) ==
    IF step.action = A_activate /\ _is_query_delete_button(step)
    THEN A_delete ELSE step.action

CardStep(e) ==
    /\ e.variant = "full"
    /\ e.step.event = E_click
    /\ CardActionOf(e.step) \in CardActions

\* a card was at hand before the step, or a lookup of the step gave one
ContextResolved(e) ==
    \/ IsAliveCard(e.before.page)
    \/ IsAliveCard(e.before.active)
    \/ \E i \in 1..Len(e.ops) : e.ops[i].ans \in AnyCard

ResolveLookups == RememberLookups \cup {"expand_query_card"}

\* C19: preview, export and delete steps never invoke the corresponding
\* collaborator operation unless an active card was resolved first; when
\* the required resolution fails, the step fails and the operation is not
\* called.
C19_CardOperationNeedsCard ==
    StepRan /\ CardStep(TheStep) =>
        LET operation == CardOperation(CardActionOf(TheStep.step))
            called == Asks(TheStep, operation)
        IN  /\ called \subseteq {Len(TheStep.ops)}
            /\ \A i \in 1..Len(TheStep.ops) :
                  i \notin called => TheStep.ops[i].op \in ResolveLookups
            /\ called # {} =>
                  /\ ContextResolved(TheStep)
                  /\ \A i \in called : \A j \in 1..Len(TheStep.ops) :
                        TheStep.ops[j].ans \in AnyCard => j < i
            /\ ~ContextResolved(TheStep) =>
                  /\ TheStep.err # NoErr
                  /\ called = {}

C19_Witness ==
    /\ StepRan
    /\ CardStep(TheStep)
    /\ TheStep.step.action = A_preview
    /\ TheStep.before = [active |-> None, page |-> None]
    /\ Len(TheStep.ops) = 1
    /\ TheStep.ops[1].op = "expand_query_card"
    /\ TheStep.ops[1].ans = Threw
    /\ TheStep.err = RuntimeErr("Cannot resolve active query card",
                                TheStep.step.index)

EmptyContext == [active |-> None, page |-> None]

T_main_sql_mode == <<"main","-","sql","-","mode">>

\* C20: a click/activate step whose testId is main-sql-mode, executed from
\* an empty context, invokes the mapped no-argument navigation operation
\* exactly once, no generic click and no other collaborator operation, and
\* records no context; the same holds for every testId of the exact route
\* table.
C20_RoutedClickRecordsNoContext ==
    /\ StepRan
    /\ TheStep.step.event = E_click
    /\ TheStep.step.action = A_activate
    /\ TheStep.before = EmptyContext
    => \A route \in RouteOf(TheStep.step) :
          /\ Asks(TheStep, "route") = {1}
          /\ Len(TheStep.ops) = 1
          /\ TheStep.ops[1].arg = [page |-> route.page, method |-> route.method]
          /\ TheStep.ops[1].ans = Done <=> TheStep.err = NoErr
          /\ TheStep.after = EmptyContext

C20_Witness ==
    /\ StepRan
    /\ TheStep.variant = "full"
    /\ TheStep.step.event = E_click
    /\ TheStep.step.action = A_activate
    /\ TheStep.step.test_id = Str(T_main_sql_mode)
    /\ TheStep.before = EmptyContext
    /\ TheStep.ops = <<[op |-> "route",
                        arg |-> [page |-> "plugin_page",
                                 method |-> "click_main_sql_mode"],
                        ans |-> Done]>>
    /\ TheStep.err = NoErr
    /\ TheStep.after = EmptyContext

\* a click/activate of the full executor on an export destination option
ExportOptionStep(e) ==
    /\ e.variant = "full"
    /\ e.step.event = E_click
    /\ e.step.action = A_activate
    /\ _is_export_destination_option(e.step)

Selects(e, label) ==
    /\ Len(e.ops) = 1
    /\ e.ops[1].op = "select_export_destination"
    /\ e.ops[1].arg = Str(label)

EndsIn(step, word) == IsSuffix(<<"-", word>>, TestId(step))

C23_KeyboardEventsSkipped ==
    StepRan /\ TheStep.variant = "full" /\ TheStep.step.event \in KEYBOARD_EVENTS =>
        /\ TheStep.ops = <<>>
        /\ TheStep.err = NoErr
        /\ TheStep.after = TheStep.before

\* a keyup with a mapped action, a routed testId and a selector, on a bound
\* context
C23_Witness ==
    /\ StepRan
    /\ TheStep.variant = "full"
    /\ TheStep.step.event = E_keyup
    /\ TheStep.step.action = A_activate
    /\ RouteOf(TheStep.step) # {}
    /\ Truthy(TheStep.step.selector)
    /\ TheStep.before = [active |-> Card("card1"), page |-> Card("card1")]
    /\ TheStep.ops = <<>>
    /\ TheStep.err = NoErr
    /\ TheStep.after = TheStep.before

HandlerKeys ==
    { <<E_click, A_activate>>, <<E_click, A_preview>>, <<E_click, A_export>>,
      <<E_click, A_delete>>, <<E_input, A_set_value>>, <<E_change, A_set_value>>,
      <<E_codemirror_change, A_set_value>> }

\* an unmapped step that no fallback of _handle_unmapped_action takes
NoFallback(step) ==
    /\ <<step.event, step.action>> \notin HandlerKeys
    /\ step.event \notin KEYBOARD_EVENTS
    /\ step.event # E_click
    /\ ~(step.event \in {E_input, E_change, E_codemirror_change}
         /\ step.value # None)

NoHandlerError(step) ==
    [type |-> "RuntimeError", what |-> "No handler", line |-> step.index,
     event |-> step.event, action |-> step.action]

\* C24: a step whose (event, action) is not in the handler map and that is
\* not a keyboard event, not a click and not an input/change/
\* codemirror-change with a value fails with the no-handler error naming
\* its line and event/action, and invokes no collaborator operation; an
\* unmapped input/change/codemirror-change without a value fails too.
C24_NoHandlerFails ==
    StepRan /\ TheStep.variant = "full" /\ NoFallback(TheStep.step) =>
        /\ TheStep.err = NoHandlerError(TheStep.step)
        /\ TheStep.ops = <<>>
        /\ TheStep.after = TheStep.before

C24_Witness ==
    /\ StepRan
    /\ TheStep.variant = "full"
    /\ TheStep.step.event = E_codemirror_change
    /\ TheStep.step.action = <<>>
    /\ TheStep.step.value = None
    /\ Truthy(TheStep.step.selector)
    /\ TheStep.err = NoHandlerError(TheStep.step)
    /\ TheStep.ops = <<>>

CodemirrorStep(e) ==
    /\ e.variant = "full"
    /\ e.step.event = E_codemirror_change
    /\ e.step.action = A_set_value

LookupRaised(e) == \E i \in FromElement(e) : e.ops[i].ans = Threw

\* C25: a codemirror-change/set-value step resolves the active card with
\* required = false.  If a card is resolved it calls set_query_text with
\* the step's value and makes no generic injection; if none is resolved it
\* runs the generic injection on the element located from the step and
\* never calls set_query_text.  The two never both run, and one of them
\* runs whenever the element lookups return.
C25_SetQueryTextOrInjection ==
    StepRan /\ CodemirrorStep(TheStep) =>
        LET n == Len(TheStep.ops)
            set == Asks(TheStep, "set_query_text")
            injected == Asks(TheStep, "execute_script:codemirror")
        IN  /\ set = {} \/ injected = {}
            /\ ContextResolved(TheStep) =>
                  /\ set = {n}
                  /\ injected = {}
                  /\ TheStep.ops[n].arg = ValueOrEmpty(TheStep.step)
                  /\ TheStep.err # RuntimeErr("Cannot resolve active query card",
                                              TheStep.step.index)
            /\ ~ContextResolved(TheStep) =>
                  /\ set = {}
                  /\ injected \subseteq {n}
                  /\ \A i \in injected :
                        /\ i > 1
                        /\ TheStep.ops[i - 1].op = "find_element_in_frames"
                        /\ TheStep.ops[i - 1].ans = Elem
                  /\ ~LookupRaised(TheStep) =>
                        \/ injected # {}
                        \/ TheStep.err = NoSuchElement("codemirror element",
                                                       TheStep.step.index)

\* no card from the element or by name: the injection, on the step's element
C25_Witness ==
    /\ StepRan
    /\ CodemirrorStep(TheStep)
    /\ TheStep.before = EmptyContext
    /\ Asks(TheStep, "expand_query_card") # {}
    /\ ~ContextResolved(TheStep)
    /\ Asks(TheStep, "execute_script:codemirror") = {Len(TheStep.ops)}
    /\ TheStep.err = NoErr
    /\ TheStep.after = EmptyContext

(***************************************************************************)
(* Best-effort operations.                                                 *)
(***************************************************************************)
RememberRan == pc = "stepped" /\ trace[1].op = "_remember_active_card"

\* C26: _remember_active_card never fails: for every step and every
\* behaviour of the lookup and script primitives, raising included, it
\* returns normally, and when it finds no composite ancestor (and the page
\* tracks no card to adopt) it leaves the tracked context unchanged.
C26_RememberNeverFails ==
    RememberRan =>
        /\ TheStep.err = NoErr
        /\ GaveCard(TheStep, "execute_script:closest") = {}
              /\ ~IsAliveCard(TheStep.before.page)
              => TheStep.after = TheStep.before

\* a click/activate whose testId belongs to a derived-name family and has
\* no entry in the exact route table
DerivedStep(e) ==
    /\ e.variant = "full"
    /\ e.step.event = E_click
    /\ e.step.action = A_activate
    /\ HasTestId(e.step)
    /\ RouteOf(e.step) = {}
    /\ StartsWithKnownPrefix(e.step)

\* C27: derived-method probing never raises: the derived operation is
\* invoked if the collaborator has it; if it is missing, cannot be called
\* without arguments, or its call fails, dispatch raises no error and the
\* step goes on to the next stage, here the generic click.
C27_DerivedProbeNeverRaises ==
    StepRan /\ DerivedStep(TheStep) =>
        /\ Asks(TheStep, "derived") \subseteq {1}
        /\ \A i \in Asks(TheStep, "derived") :
              IF TheStep.ops[i].ans = Done
              THEN Len(TheStep.ops) = 1 /\ TheStep.err = NoErr
              ELSE Asks(TheStep, "_click_locator") = {2}
        /\ Asks(TheStep, "derived") = {} => Asks(TheStep, "_click_locator") = {1}

(***************************************************************************)
(* Properties of steps in sequence (SpecSeq).                              *)
(***************************************************************************)
SeqRan == trace # <<>> /\ LastOp.op = "execute_step"

TwoSteps == Len(trace) = 2

Previous == trace[1]

ConnectionStep(e) ==
    /\ e.step.event = E_click
    /\ e.step.action = A_activate
    /\ _is_connection_item(e.step)

\* a name as select_connection takes it: no zero-width space in it, no
\* marker in front, no space around
CleanName(name) ==
    /\ name # <<>>
    /\ \A i \in 1..Len(name) : name[i] # ZeroWidthSpace
    /\ \A i \in 1..Len(Glyphs) : name[1] # Glyphs[i]
    /\ name[1] \notin Whitespace
    /\ name[Len(name)] \notin Whitespace

\* what a connection item activates: the connection of that name, or the
\* item itself by a generic click; the tracked context stays as it was
ActivatesConnection(e) ==
    LET given == Strip(TextOf(e.step.connection_name))
        name == IF given # <<>> THEN given ELSE _clean_connection_title(e.step.text)
    IN  /\ Len(e.ops) = 1
        /\ IF name # <<>>
           THEN /\ e.ops[1].op = "select_connection"
                /\ e.ops[1].arg = Str(name)
                /\ CleanName(name)
           ELSE e.ops[1].op = "_click_locator"
        /\ e.after = e.before

NoTarget(step) == NoLocator(step)

NoNames(step) ==
    /\ Strip(TextOf(Get(step.raw, "queryName"))) = <<>>
    /\ Strip(TextOf(step.connection_name)) = <<>>

AfterConnection ==
    /\ SeqRan
    /\ TwoSteps
    /\ ConnectionStep(Previous)
    /\ Previous.before = EmptyContext
    /\ CodemirrorStep(LastOp)

SuccessfulDelete(e) ==
    /\ CardActionOf(e.step) = A_delete
    /\ e.err = NoErr
    /\ e.ops # <<>>
    /\ e.ops[Len(e.ops)].op = "click_query_delete"
    /\ e.ops[Len(e.ops)].ans = Done
    /\ e.after = EmptyContext

\* the card the step bound: one a lookup of the step gave (activation,
\* resolution), or the one the page tracked (sync)
BoundThrough(e) ==
    \/ \E i \in 1..Len(e.ops) : e.ops[i].ans = e.after.active
    \/ e.after.active = e.before.page /\ IsAliveCard(e.before.page)

\* C30: the tracked card is a two-state machine {empty, bound}: it starts
\* empty, becomes bound only through activation, resolution or sync from
\* the page, and becomes empty again only through a successful delete; so
\* without a successful delete a bound context never becomes empty.
C30_BoundUntilDeleted ==
    /\ active_card = None
    /\ [][ active_card' # active_card =>
             /\ trace' # <<>>
             /\ LET e == trace'[Len(trace')]
                IN  /\ e.before.active = active_card
                    /\ e.after.active = active_card'
                    /\ IF active_card' = None
                       THEN SuccessfulDelete(e)
                       ELSE BoundThrough(e) ]_vars

\* empty, bound by a click inside a card, empty again after its delete
C30_Witness ==
    /\ SeqRan
    /\ TwoSteps
    /\ Previous.before = EmptyContext
    /\ Previous.after.active = Card("card1")
    /\ LastOp.before.active = Card("card1")
    /\ SuccessfulDelete(LastOp)
    /\ active_card = None

(***************************************************************************)
(* Properties of main and of replay_file's flags (SpecMain).               *)
(***************************************************************************)
MainRun == arg.entry = "main"

ExecutorConstructed ==
    \E i \in 1..Len(calls) : calls[i].op = "InteractionLogExecutor"

Released == {i \in 1..Len(calls) : calls[i].op = "driver.quit"}

MainOver == pc = "exited"

\* C28: in main, once the executor is constructed, its driver is released
\* exactly once before main returns, whether the replay completed or
\* raised, and an error of the release itself is ignored; main returns 0
\* exactly when the replay completed and 2 exactly when it raised.
C28_ReleasedOnceThenExitCode ==
    MainRun /\ ExecutorConstructed =>
        IF MainOver
        THEN /\ Released = {Len(calls)}
             /\ outcome.kind \in {"returned", "raised"}
             /\ ret = Num(0) <=> outcome.kind = "returned"
             /\ ret = Num(2) <=> outcome.kind = "raised"
             /\ outcome.kind = "returned" =>
                   /\ Len(executed) = Len(steps)
                   /\ \A i \in 1..Len(executed) : executed[i].err = NoErr
        ELSE Released = {} /\ ret = None

\* the replay raised on its second step and the release raised too
C28_Witness ==
    /\ MainRun
    /\ MainOver
    /\ ExecutorConstructed
    /\ Len(executed) = 2
    /\ executed[2].err # NoErr
    /\ calls[Len(calls)].op = "driver.quit"
    /\ calls[Len(calls)].ans = Threw
    /\ ret = Num(2)

\* the steps handed to the replay loop are all the steps read
ReadyToReplay == pc \in {"prepare", "replay"}

\* C29: the session flags do not influence the replay.  Whether
\* use_last_session is true or false and whatever the seq values are,
\* replay_file executes the steps of the log's non-blank lines in file
\* order, all of them when it returns; main always replays fail-fast and
\* without the flag, also when --continue-on-error or --all-sessions is
\* given.
C29_FlagsDoNotInfluenceReplay ==
    /\ ReadyToReplay => Len(steps) = Len(NonBlankLineNumbers)
    /\ \A i \in 1..Len(executed) :
          /\ i <= Len(NonBlankLineNumbers)
          /\ executed[i].step.index = NonBlankLineNumbers[i]
          /\ executed[i].step.raw = file.lines[NonBlankLineNumbers[i]].raw
    /\ outcome.kind = "returned" => Len(executed) = Len(NonBlankLineNumbers)
    /\ MainRun /\ ExecutorConstructed =>
          /\ stop_on_error
          /\ ~use_last_session
          /\ \A i \in 1..Len(executed) :
                executed[i].err # NoErr =>
                    i = Len(executed) /\ outcome.kind = "raised"

\* use_last_session set, on a log whose seq starts again at its second
\* line: all three steps are executed, first line first
C29_Witness ==
    /\ arg.entry = "replay_file"
    /\ use_last_session
    /\ outcome.kind = "returned"
    /\ Len(executed) = 3
    /\ executed[1].step.seq = Num(2)
    /\ executed[2].step.seq = Num(1)
    /\ executed[3].step.seq = Num(1)
    /\ executed[1].step.index = 1

(***************************************************************************)
(* The simple executor (SpecStep).                                         *)
(***************************************************************************)
\* a click the simple executor does not skip and has no exact or prefix
\* route for
SimpleUnknownClick(e) ==
    /\ e.variant = "simple"
    /\ e.step.event = E_click
    /\ ~_should_skip_step(e.step, DEFAULT_SKIP_RULES)
    /\ ~HasSimpleExact(e.step)
    /\ MatchingPrefixes(e.step) = {}

\* C31: in the simple executor a click step whose target is unknown (no
\* exact and no prefix route) falls back to one generic click located by
\* selector, else by testId, else by DOM id; a click step carrying only a
\* DOM id is clicked by that id.
C31_SimpleFallbackLocatesById ==
    StepRan /\ SimpleUnknownClick(TheStep) =>
        LET loc == _locator_from_step(TheStep.step)
        IN  IF loc.ok /\ Truthy(loc.val)
            THEN /\ Len(TheStep.ops) = 1
                 /\ TheStep.ops[1].op = "_click_locator"
                 /\ TheStep.ops[1].arg = loc.val
            ELSE TheStep.ops = <<>> /\ TheStep.err # NoErr

(***************************************************************************)
(* The branches of _handle_click_activate (SpecStep).                      *)
(***************************************************************************)
ClickActivate(e) ==
    e.variant = "full" /\ e.step.event = E_click /\ e.step.action = A_activate

\* route dispatch matched: an exact route was called, or a derived-name
\* operation was called and returned
RouteMatched(e) ==
    \E i \in 1..Len(e.ops) :
        \/ e.ops[i].op = "route"
        \/ e.ops[i].op = "derived" /\ e.ops[i].ans = Done

\* the branch that handles the step, by the order of the claim
BranchOf(e) ==
    IF RouteMatched(e) THEN "route"
    ELSE IF _is_connection_item(e.step) THEN "connection"
    ELSE IF _is_query_delete_button(e.step) THEN "delete"
    ELSE IF _is_export_destination_option(e.step) THEN "export"
    ELSE IF _is_codemirror_target(e.step) /\ Asks(e, "_js_click") # {} THEN "editor"
    ELSE "generic"

CardLookups ==
    {"find_element_in_frames", "execute_script:closest", "expand_query_card"}

\* what a branch may ask of the collaborators; a derived-name probe that
\* did not return comes before any of them
BranchOps(b) ==
    CASE b = "route" -> {"route", "derived"}
      [] b = "connection" -> {"derived", "select_connection", "_click_locator"}
      [] b = "delete" -> {"derived", "click_query_delete"} \cup CardLookups
      [] b = "export" -> {"derived", "select_export_destination", "_click_locator"}
      [] b = "editor" -> {"derived", "_find_child_by_testid", "_js_click"}
                             \cup CardLookups
      [] OTHER -> {"derived", "_find_child_by_testid", "_click_locator"}
                      \cup CardLookups

\* the one operation by which a branch acts
BranchActs(b) ==
    CASE b = "route" -> {"route", "derived"}
      [] b = "connection" -> {"select_connection", "_click_locator"}
      [] b = "delete" -> {"click_query_delete"}
      [] b = "export" -> {"select_export_destination", "_click_locator"}
      [] b = "editor" -> {"_js_click"}
      [] OTHER -> {"_click_locator"}

Acts(e) ==
    {i \in 1..Len(e.ops) :
        /\ e.ops[i].op \in BranchActs(BranchOf(e))
        /\ e.ops[i].op = "derived" => e.ops[i].ans = Done}

\* the activation of a code-editor target found no context, or found one
\* and no nested editor in it, and none of its lookups raised on the way
NoContextFound(e) ==
    /\ NeitherAlive(e)
    /\ \A i \in 1..Len(e.ops) :
          /\ e.ops[i].op \in {"find_element_in_frames", "execute_script:closest"}
                => e.ops[i].ans # Threw
          /\ e.ops[i].op \in CardLookups \ {"find_element_in_frames"}
                => e.ops[i].ans \notin AnyCard
    /\ Asks(e, "_find_child_by_testid") = {}

NoEditorFound(e) ==
    /\ Cardinality(Asks(e, "_find_child_by_testid")) = 2
    /\ \A i \in Asks(e, "_find_child_by_testid") : e.ops[i].ans = Threw

\* C32: for a click/activate step exactly one branch acts, chosen in the
\* order route dispatch, connection-tree item, query-delete button,
\* export-destination option, code-editor target, generic click plus
\* remember.  When a route matches, no recognizer branch and no generic
\* click runs; a code-editor target whose activation finds no context or no
\* nested editor falls through to the generic click plus remember instead
\* of failing.
C32_OneBranchActs ==
    StepRan /\ ClickActivate(TheStep) =>
        /\ \A i \in 1..Len(TheStep.ops) :
              TheStep.ops[i].op \in BranchOps(BranchOf(TheStep))
        /\ Cardinality(Acts(TheStep)) <= 1
        /\ TheStep.err = NoErr => Cardinality(Acts(TheStep)) = 1
        /\ RouteMatched(TheStep) =>
              /\ Acts(TheStep) = {Len(TheStep.ops)}
              /\ \A i \in 1..Len(TheStep.ops) :
                    TheStep.ops[i].op \in {"route", "derived"}
        /\ /\ ~RouteMatched(TheStep)
           /\ _is_codemirror_target(TheStep.step)
           /\ \A i \in Asks(TheStep, "derived") : TheStep.ops[i].ans # Threw
           /\ NoContextFound(TheStep) \/ NoEditorFound(TheStep)
           => /\ Cardinality(Asks(TheStep, "_click_locator")) = 1
              /\ \A i \in Asks(TheStep, "_click_locator") :
                    /\ TheStep.ops[i].arg = _locator_from_step(TheStep.step).val
                    /\ \A j \in Asks(TheStep, "_find_child_by_testid") : j < i
                    /\ TheStep.ops[i].ans = Done /\ TheStep.before.active = None
                          /\ ~IsAliveCard(TheStep.before.page)
                          /\ NoContextFound(TheStep)
                          => (i + 1) \in Asks(TheStep, "find_element_in_frames")

\* a code-editor target with a context and no nested editor: the generic
\* click runs after both editor lookups raised
C32_Witness ==
    /\ StepRan
    /\ ClickActivate(TheStep)
    /\ _is_codemirror_target(TheStep.step)
    /\ IsAliveCard(TheStep.before.active)
    /\ NoEditorFound(TheStep)
    /\ Asks(TheStep, "_click_locator") = {3}
    /\ TheStep.err = NoErr

\* a step the simple executor takes to its prefix table: not skipped, a
\* testId with no exact route that starts with a prefix of the table
PrefixStep(e) ==
    /\ e.variant = "simple"
    /\ ~_should_skip_step(e.step, DEFAULT_SKIP_RULES)
    /\ HasTestId(e.step)
    /\ ~HasSimpleExact(e.step)
    /\ \E i \in 1..Len(click_routes_prefix) :
          IsPrefix(click_routes_prefix[i], TestId(e.step))

\* the first prefix of the table, in declaration order, that the testId
\* starts with
FirstPrefix(step) ==
    CHOOSE i \in 1..Len(click_routes_prefix) :
        /\ IsPrefix(click_routes_prefix[i], TestId(step))
        /\ \A j \in 1..(i - 1) : ~IsPrefix(click_routes_prefix[j], TestId(step))

\* the page operation of each prefix handler
PrefixOperation ==
    << "select_connection", "click_query_preview", "click_export",
       "click_query_delete", "set_query_text", "select_export_destination" >>

\* C33 as stated: the handler of the first matching prefix is invoked
\* exactly once, and no later prefix handler and no generic click runs.
C33_PrefixHandlerAndNoGenericClick ==
    StepRan /\ PrefixStep(TheStep) =>
        /\ \A i \in 1..Len(TheStep.ops) :
              TheStep.ops[i].op = PrefixOperation[FirstPrefix(TheStep.step)]
        /\ Len(TheStep.ops) <= 1
        /\ TheStep.err = NoErr => Len(TheStep.ops) = 1

\* the connection and export-option handlers have nothing to select by
HandlerClicks(step) ==
    \/ FirstPrefix(step) = 1 /\ StrippedOrEmpty(step.connection_name) = <<>>
    \/ FirstPrefix(step) = 6 /\ TextOrValue(step) = <<>>

\* C33: in the simple executor a testId with no exact route is probed
\* against the prefix table in declaration order and the handler of the
\* first prefix it starts with is invoked exactly once; no later prefix
\* handler runs and the step is not clicked a second time.  The handler's
\* own operation is the only call - a generic click on the step's locator
\* when the connection or export-option handler has no name to select by.
C33_FirstPrefixHandlerOnce ==
    StepRan /\ PrefixStep(TheStep) =>
        /\ \A i \in 1..Len(TheStep.ops) :
              IF HandlerClicks(TheStep.step)
              THEN /\ TheStep.ops[i].op = "_click_locator"
                   /\ TheStep.ops[i].arg = Simple_locator_from_step(TheStep.step).val
              ELSE TheStep.ops[i].op = PrefixOperation[FirstPrefix(TheStep.step)]
        /\ Len(TheStep.ops) <= 1
        /\ TheStep.err = NoErr => Len(TheStep.ops) = 1

\* a connection item with a blank name: the handler clicks it, once
C33_Witness ==
    /\ StepRan
    /\ PrefixStep(TheStep)
    /\ TheStep.step.event = E_click
    /\ HandlerClicks(TheStep.step)
    /\ Len(TheStep.ops) = 1
    /\ TheStep.ops[1].op = "_click_locator"
    /\ TheStep.err = NoErr

\* C34: the simple executor skips every step whose event is keydown, keyup
\* or keypress: whatever its testId, the step invokes no collaborator
\* operation and raises no error.
C34_SimpleSkipsKeyboardEvents ==
    StepRan /\ TheStep.variant = "simple" /\ TheStep.step.event \in KEYBOARD_EVENTS =>
        /\ TheStep.ops = <<>>
        /\ TheStep.err = NoErr

(***************************************************************************)
(* Sessions (SpecSplit).                                                   *)
(***************************************************************************)
SplitRan == pc \in {"choose", "chosen"}

Sessions == trace[1].val

RECURSIVE Concatenated(_)
Concatenated(ss) == IF ss = <<>> THEN <<>> ELSE Head(ss) \o Concatenated(Tail(ss))

\* the positions in the input of the steps that open a session
RECURSIVE Openings(_)
Openings(ss) ==
    IF ss = <<>> THEN {}
    ELSE LET before == SubSeq(ss, 1, Len(ss) - 1)
         IN  Openings(before) \cup {Len(Concatenated(before)) + 1}

\* positions before i whose seq is not null
NumberedBefore(i) == {j \in 1..(i - 1) : steps[j].seq # None}

\* a non-null seq lower than the most recent non-null seq before it
Resets ==
    {i \in 1..Len(steps) :
        /\ steps[i].seq # None
        /\ NumberedBefore(i) # {}
        /\ LET last == CHOOSE j \in NumberedBefore(i) :
                          \A k \in NumberedBefore(i) : k <= j
           IN  steps[i].seq.n < steps[last].seq.n}

NonDecreasing(session) ==
    \A a, b \in 1..Len(session) :
        a < b /\ session[a].seq # None /\ session[b].seq # None
            => session[a].seq.n <= session[b].seq.n

\* C35: split_sessions_by_seq starts a new session exactly at each step
\* whose non-null seq is lower than the most recent non-null seq before it
\* (a step with a null seq never starts one); the sessions are non-empty,
\* their concatenation in order is the input, and within a session the
\* non-null seq values are non-decreasing.  replay_file does not use the
\* partitioning: it hands every step read to replay_steps, whatever
\* use_last_session says.
C35_SessionsSplitAtSeqResets ==
    /\ SplitRan =>
          /\ Concatenated(Sessions) = steps
          /\ \A k \in 1..Len(Sessions) :
                Sessions[k] # <<>> /\ NonDecreasing(Sessions[k])
          /\ Openings(Sessions) = IF steps = <<>> THEN {} ELSE {1} \cup Resets
    /\ pc = "chosen" => trace[2].val = steps

\* a reset seen across a step without a seq; replay asked for the last
\* session still takes the three steps
C35_Witness ==
    /\ pc = "chosen"
    /\ use_last_session
    /\ Len(steps) = 3
    /\ steps[1].seq = Num(3) /\ steps[2].seq = None /\ steps[3].seq = Num(2)
    /\ Len(Sessions) = 2
    /\ Sessions[2] = <<steps[3]>>
    /\ trace[2].val = steps

(***************************************************************************)
(* Skip rules (SpecSkip).                                                  *)
(***************************************************************************)
\* one field condition of a rule: equality, or for a key ending in
\* __startswith a field that is a text beginning with the expected one
ConditionHolds(step, item) ==
    LET n == Len(item.key)
        by_prefix == n > 1 /\ item.key[n] = "__startswith"
        actual == _get_step_field(step, IF by_prefix THEN SubSeq(item.key, 1, n - 1)
                                        ELSE item.key)
    IN  IF by_prefix
        THEN /\ actual.t = "str"
             /\ Len(actual.s) >= Len(item.expected.s)
             /\ SubSeq(actual.s, 1, Len(item.expected.s)) = item.expected.s
        ELSE actual = item.expected

MatchedBySomeRule(step) ==
    \E k \in 1..Len(skip_rules) :
        \A i \in 1..Len(skip_rules[k]) : ConditionHolds(step, skip_rules[k][i])

Routable(step) ==
    /\ HasTestId(step)
    /\ HasSimpleExact(step) \/ MatchingPrefixes(step) # {}

\* C36: the simple executor checks its skip rules before route dispatch.  A
\* step matched by any rule (every field condition of the rule holds, keys
\* ending in __startswith compared by prefix) invokes no collaborator
\* operation and raises no error, even if its testId has an exact or a
\* prefix route; a step matched by no rule is dispatched as it would be
\* without rules.
C36_SkipRulesBeforeDispatch ==
    StepRan /\ TheStep.variant = "simple" =>
        IF MatchedBySomeRule(TheStep.step)
        THEN /\ TheStep.ops = <<>>
             /\ TheStep.err = NoErr
             /\ TheStep.after = TheStep.before
        ELSE \E r \in SimpleDispatch(TheStep.step,
                                     [active |-> TheStep.before.active,
                                      page |-> TheStep.before.page,
                                      calls |-> <<>>]) :
                /\ TheStep.ops = r.m.calls
                /\ TheStep.err = r.err
                /\ TheStep.after = Ctx(r.m)

\* a click on a routed testId, skipped by a rule added for its prefix
C36_Witness ==
    /\ StepRan
    /\ TheStep.variant = "simple"
    /\ TheStep.step.event = E_click
    /\ Routable(TheStep.step)
    /\ Len(skip_rules) = 3
    /\ ~_should_skip_step(TheStep.step, DEFAULT_SKIP_RULES)
    /\ skip_rules[3] = <<RuleItem(<<"testId">> \o StartsWith, Str(P_main))>>
    /\ MatchedBySomeRule(TheStep.step)
    /\ TheStep.ops = <<>>
    /\ TheStep.err = NoErr

(***************************************************************************)
(* Recognizers and route tables (SpecRecognize).                           *)
(***************************************************************************)
Branches == <<"route", "connection", "delete", "export", "editor">>

\* the recognizers and route tables that match a step's testId; the route
\* tables match an exact key and every testId of a derived-name family
Matching(step) ==
    {b \in {Branches[i] : i \in 1..Len(Branches)} :
        CASE b = "route" -> RouteOf(step) # {} \/ (HasTestId(step) /\ StartsWithKnownPrefix(step))
          [] b = "connection" -> _is_connection_item(step)
          [] b = "delete" -> _is_query_delete_button(step)
          [] b = "export" -> _is_export_destination_option(step)
          [] OTHER -> _is_codemirror_target(step)}

BranchOrders ==
    {order \in [1..Len(Branches) -> 1..Len(Branches)] :
        \A i, j \in 1..Len(Branches) : i # j => order[i] # order[j]}

\* the click/activate handler consulting its branches in a given order
RECURSIVE InOrder(_, _, _, _)
InOrder(order, k, step, m) ==
    IF k > Len(order) THEN ClickAndRemember(step, m)
    ELSE LET b == Branches[order[k]]
         IN  CASE b = "route" ->
                    Bind(_dispatch_click_route(step, m), LAMBDA r :
                        IF r.val.b THEN {Res(_sync_active_card_from_page(r.m), None)}
                        ELSE InOrder(order, k + 1, step, r.m))
               [] b = "connection" ->
                    IF _is_connection_item(step) THEN _activate_connection(step, m)
                    ELSE InOrder(order, k + 1, step, m)
               [] b = "delete" ->
                    IF _is_query_delete_button(step) THEN _handle_click_delete(step, m)
                    ELSE InOrder(order, k + 1, step, m)
               [] b = "export" ->
                    IF _is_export_destination_option(step)
                    THEN _activate_export_destination_option(step, m)
                    ELSE InOrder(order, k + 1, step, m)
               [] OTHER ->
                    IF _is_codemirror_target(step)
                    THEN Bind(_activate_codemirror(step, m), LAMBDA a :
                            IF a.val.b THEN {Res(a.m, None)}
                            ELSE InOrder(order, k + 1, step, a.m))
                    ELSE InOrder(order, k + 1, step, m)

\* C37: the four click recognizers (connection-tree item, query-delete
\* button, export-destination option, code-editor target) and the route
\* tables are mutually exclusive: at most one of them matches a testId, so
\* consulting them in any other order runs the same operations for every
\* step, and the step is handled by the one that matches or by the generic
\* click.
C37_RecognizersExclusive ==
    /\ pc = "chosen" =>
          /\ Cardinality(Matching(steps[1])) <= 1
          /\ \A order \in BranchOrders :
                InOrder(order, 1, steps[1], M0) = _handle_click_activate(steps[1], M0)
    /\ StepRan /\ ClickActivate(TheStep) =>
          BranchOf(TheStep) \in Matching(TheStep.step) \cup {"generic"}

\* a testId that begins as a delete button and goes on as an editor target
C37_Witness ==
    /\ StepRan
    /\ ClickActivate(TheStep)
    /\ TestId(TheStep.step) = P_query_delete \o P_query_editor
    /\ Matching(TheStep.step) = {"delete"}
    /\ Asks(TheStep, "click_query_delete") # {}
    /\ TheStep.err = NoErr

(***************************************************************************)
(* Remembering and clearing the context.                                   *)
(***************************************************************************)
\* the executor's card once it has synced from the page
Synced(e) == IF IsAliveCard(e.before.page) THEN e.before.page ELSE e.before.active

\* the remember operation that starts after the first n collaborator calls
\* of the entry: with a card bound it asks nothing and binds nothing; with
\* an empty slot it binds only the composite of the step's element
RememberKeeps(e, n) ==
    IF Synced(e) # None
    THEN /\ Len(e.ops) = n
         /\ e.err = NoErr
         /\ e.after = [active |-> Synced(e), page |-> e.before.page]
    ELSE \/ e.after = e.before
         \/ \E i \in GaveCard(e, "execute_script:closest") :
               /\ i > n
               /\ e.after = [active |-> e.ops[i].ans, page |-> e.ops[i].ans]

ClickedThenRemembered(e) ==
    /\ PlainClick(e)
    /\ Len(e.ops) >= 1
    /\ e.ops[1].op = "_click_locator"
    /\ e.ops[1].ans = Done

\* C38: the remember operation never replaces a bound context.  If after
\* syncing from the page the executor holds a card, alive or stale, then
\* remember - on its own or after a generic click - looks nothing up and
\* leaves the executor's and the page's card as they are; a new composite
\* is stored, from the step's element, only when the executor's slot is
\* empty.
C38_RememberKeepsBoundContext ==
    /\ RememberRan => RememberKeeps(TheStep, 0)
    /\ StepRan /\ ClickedThenRemembered(TheStep) => RememberKeeps(TheStep, 1)

\* a generic click on an element, the executor holding a stale card and
\* the page another stale one
C38_Witness ==
    /\ StepRan
    /\ ClickedThenRemembered(TheStep)
    /\ Truthy(TheStep.step.selector)
    /\ TheStep.before.active # None
    /\ ~IsAliveCard(TheStep.before.active)
    /\ TheStep.before.page \notin {None, TheStep.before.active}
    /\ TheStep.after = TheStep.before
    /\ Len(TheStep.ops) = 1

(***************************************************************************)
(* A delete that fails (SpecSeq).                                          *)
(***************************************************************************)
DeleteStep(e) == CardStep(e) /\ CardActionOf(e.step) = A_delete

DeleteAsked(e) == Asks(e, "click_query_delete")

DeleteReturned(e) == \E i \in DeleteAsked(e) : e.ops[i].ans = Done

\* the card a step had at hand without looking for one
AtHand(ctx) ==
    IF IsAliveCard(ctx.page) THEN ctx.page
    ELSE IF IsAliveCard(ctx.active) THEN ctx.active
    ELSE None

\* C39: the tracked context is cleared only after the page's delete
\* operation has returned: if the resolution of the context or the delete
\* operation raises, the step fails and neither the executor's nor the
\* page's card is cleared - a failed resolution leaves both as they were, a
\* failed delete leaves both on the resolved card - and the next step that
\* requires a context, run after the failure as in continue-on-error mode,
\* resolves that same card without looking for one.
C39_ClearedOnlyAfterDelete ==
    /\ SeqRan /\ DeleteStep(LastOp) /\ ~DeleteReturned(LastOp) =>
          /\ LastOp.err # NoErr
          /\ IF DeleteAsked(LastOp) = {}
             THEN LastOp.after = LastOp.before
             ELSE /\ IsAliveCard(LastOp.after.active)
                  /\ LastOp.after.page = LastOp.after.active
                  /\ \/ LastOp.after.active = AtHand(LastOp.before)
                     \/ /\ AtHand(LastOp.before) = None
                        /\ \E i \in 1..Len(LastOp.ops) :
                              LastOp.ops[i].ans = LastOp.after.active
    /\ SeqRan /\ DeleteStep(LastOp) /\ LastOp.after # LastOp.before
          /\ LastOp.after = EmptyContext
          => DeleteReturned(LastOp)
    /\ SeqRan /\ TwoSteps /\ DeleteStep(Previous) /\ Previous.err # NoErr
          /\ CardStep(LastOp)
          => /\ LastOp.before = Previous.after
             /\ AtHand(Previous.after) # None =>
                   /\ Asks(LastOp, "find_element_in_frames") = {}
                   /\ Asks(LastOp, "expand_query_card") = {}
                   /\ Asks(LastOp, CardOperation(CardActionOf(LastOp.step))) = {1}
                   /\ IF SuccessfulDelete(LastOp)
                      THEN LastOp.after = EmptyContext
                      ELSE /\ LastOp.after.active = AtHand(Previous.after)
                           /\ LastOp.after.page = AtHand(Previous.after)

\* a delete found its card by name and the page's delete raised; the
\* preview that follows, which carries nothing to find a card by, runs on
\* that card
C39_Witness ==
    /\ SeqRan
    /\ TwoSteps
    /\ DeleteStep(Previous)
    /\ Previous.before = EmptyContext
    /\ GaveCard(Previous, "expand_query_card") # {}
    /\ \E i \in DeleteAsked(Previous) : Previous.ops[i].ans = Threw
    /\ Previous.after.active # None
    /\ LastOp.step.action = A_preview
    /\ NoNames(LastOp.step)
    /\ LastOp.ops = <<[op |-> "click_query_preview", arg |-> None, ans |-> Done]>>
    /\ LastOp.after = Previous.after

(***************************************************************************)
(* Routes and the handler map (SpecStep).                                  *)
(***************************************************************************)
RouteConsulted(e) == Asks(e, "route") \cup Asks(e, "derived") # {}

\* a click of the full executor whose action has no handler of its own,
\* on a testId of the exact route table
UnmappedRoutedClick(e) ==
    /\ e.variant = "full"
    /\ e.step.event = E_click
    /\ e.step.action \notin {A_activate, A_preview, A_export, A_delete}
    /\ RouteOf(e.step) # {}

\* C40: the full executor consults its route tables only for steps whose
\* (event, action) is exactly (click, activate).  A click step with any
\* other unmapped action whose testId is in the exact route table never
\* invokes the routed operation: it is executed as one generic click on the
\* step's locator, followed by remember.
C40_RoutesOnlyForClickActivate ==
    /\ StepRan /\ TheStep.variant = "full" /\ RouteConsulted(TheStep) =>
          TheStep.step.event = E_click /\ TheStep.step.action = A_activate
    /\ StepRan /\ UnmappedRoutedClick(TheStep) =>
          /\ Asks(TheStep, "_click_locator") = {1}
          /\ TheStep.ops[1].arg = _locator_from_step(TheStep.step).val
          /\ \A i \in 2..Len(TheStep.ops) : TheStep.ops[i].op \in RememberLookups
          /\ TheStep.ops[1].ans = Threw =>
                /\ Len(TheStep.ops) = 1
                /\ TheStep.err # NoErr
                /\ TheStep.after = TheStep.before
          /\ TheStep.ops[1].ans = Done => Remembered(TheStep)

\* a click without an action on main-about: clicked by its testId, then
\* the card of the clicked element remembered
C40_Witness ==
    /\ StepRan
    /\ UnmappedRoutedClick(TheStep)
    /\ TheStep.step.action = <<>>
    /\ TheStep.before = EmptyContext
    /\ Len(TheStep.ops) = 3
    /\ TheStep.ops[1] = [op |-> "_click_locator",
                         arg |-> CssLocator(Str(TestIdSelector(T_main_about))),
                         ans |-> Done]
    /\ TheStep.ops[3].ans = Card("card1")
    /\ TheStep.after = [active |-> Card("card1"), page |-> Card("card1")]

==========================================================================
